---------------------------- MODULE Spec2Model ----------------------------
(***************************************************************************)
(* Quiz-taking state machine of SkyLearn (quiz/models.py, quiz/views.py).  *)
(*                                                                         *)
(* CharFields that hold comma-separated id lists are sequences of          *)
(* one-character strings ("1,2," is <<"1", ",", "2", ",">>), so that the   *)
(* split / join / int / str conversions of the code are modelled by what   *)
(* they do.  The user_answers JSON object is the sequence of its           *)
(* <<key, value>> members.  Database rows are records; a table is a set    *)
(* of rows with distinct primary keys.                                     *)
(***************************************************************************)
EXTENDS Integers, Sequences, FiniteSets, TLC

(***************************************************************************)
(* Bounds of the model                                                     *)
(***************************************************************************)
\* primary keys the Sitting table may hand out
MaxSittings == 2
\* primary keys the Sitting table may hand out under SpecMark
MaxMarked == 1
\* marking-view POSTs in one behaviour
MaxToggles == 2
\* HTTP requests started in one behaviour of the interleaved specification
MaxRequests == 3
\* largest question count of the Sitting instances of SpecScore
MaxProbe == 8

(***************************************************************************)
(* Fixture: users, the course, the question catalogue                      *)
(***************************************************************************)
Users == {"stu", "lec", "adm"}
is_superuser(u) == u = "adm"
is_lecturer(u) == u = "lec"

TheCourse == "c1"
TheQuiz == "q1"

\* Question rows: two multiple-choice questions and one essay question
Questions ==
    { [id |-> 1, kind |-> "MCQuestion"],
      [id |-> 2, kind |-> "EssayQuestion"],
      [id |-> 3, kind |-> "MCQuestion"] }

\* Choice rows
Choices ==
    { [id |-> 1, question |-> 1, correct |-> TRUE],
      [id |-> 2, question |-> 1, correct |-> FALSE],
      [id |-> 3, question |-> 3, correct |-> TRUE] }

\* quiz.question_set of the quiz, in primary-key order (question 3 belongs
\* to another quiz, q2)
QuestionSet == <<1, 2>>

\* values a client posts in the "answers" field
Guesses == { <<"1">>, <<"2">> }

\* the pass mark a lecturer leaves in the quiz form (the field's default), and
\* the pass marks of the quizzes of SpecScore
DefaultPassMark == 50
PassMarkInputs == {DefaultPassMark}
ProbePassMarks == {0, 34, 50, 67, 100}

(***************************************************************************)
(* str(), int(), split(), join() on character sequences                    *)
(***************************************************************************)
Digits == <<"0", "1", "2", "3", "4", "5", "6", "7", "8", "9">>

IsDigit(c) == \E i \in 1..10 : Digits[i] = c

DigitVal(c) == (CHOOSE i \in 1..10 : Digits[i] = c) - 1

\* str(n) for n >= 0
RECURSIVE IntToStr(_)
IntToStr(n) ==
    IF n < 10 THEN <<Digits[n + 1]>>
    ELSE IntToStr(n \div 10) \o <<Digits[(n % 10) + 1]>>

\* int(s) succeeds (no ValueError): a non-empty run of digits
ValidInt(s) == Len(s) > 0 /\ \A i \in 1..Len(s) : IsDigit(s[i])

\* int(s) for ValidInt(s)
RECURSIVE StrToInt(_)
StrToInt(s) ==
    IF Len(s) = 1 THEN DigitVal(s[1])
    ELSE 10 * StrToInt(SubSeq(s, 1, Len(s) - 1)) + DigitVal(s[Len(s)])

HasComma(s) == \E i \in 1..Len(s) : s[i] = ","

FirstComma(s) == CHOOSE i \in 1..Len(s) : s[i] = "," /\ \A j \in 1..(i - 1) : s[j] # ","

\* s.split(",")
RECURSIVE Split(_)
Split(s) ==
    IF ~HasComma(s) THEN <<s>>
    ELSE <<SubSeq(s, 1, FirstComma(s) - 1)>> \o Split(SubSeq(s, FirstComma(s) + 1, Len(s)))

\* s.split(",", 1) of a string that holds a comma
Split1(s) == <<SubSeq(s, 1, FirstComma(s) - 1), SubSeq(s, FirstComma(s) + 1, Len(s))>>

NonEmpty(f) == Len(f) > 0

\* [int(q) for q in s.split(",") if q]
ParseIds(s) ==
    LET fields == SelectSeq(Split(s), NonEmpty)
    IN  [i \in 1..Len(fields) |-> StrToInt(fields[i])]

\* ",".join(map(str, ids))
RECURSIVE Join(_)
Join(ids) ==
    IF Len(ids) = 0 THEN <<>>
    ELSE IF Len(ids) = 1 THEN IntToStr(ids[1])
    ELSE IntToStr(ids[1]) \o <<",">> \o Join(Tail(ids))

\* x in list
InList(x, list) == \E i \in 1..Len(list) : list[i] = x

\* list.remove(x): drops the first occurrence
ListRemove(list, x) ==
    LET k == CHOOSE i \in 1..Len(list) : list[i] = x /\ \A j \in 1..(i - 1) : list[j] # x
    IN  SubSeq(list, 1, k - 1) \o SubSeq(list, k + 1, Len(list))

Range(f) == {f[i] : i \in DOMAIN f}

\* all orders of a list (order_by("?") may return any of them)
Orderings(list) ==
    { p \in [1..Len(list) -> Range(list)] : \A i, j \in 1..Len(list) : i # j => p[i] # p[j] }

(***************************************************************************)
(* State                                                                   *)
(***************************************************************************)
VARIABLES
    quiz,        \* the persisted Quiz row
    sittings,    \* the Sitting table
    nextId,      \* next primary key of the Sitting table
    progress,    \* the Progress table: user -> <<>> (no row) or <<score>>
    clock,       \* latest value now() has returned
    toggles,     \* marking POSTs so far
    completedBy, \* users who finished a Sitting through the quiz-taking view
    last,        \* what the last request did (an observation, not program state)
    reqs,        \* requests in flight (interleaved specification)
    started,     \* requests started so far (interleaved specification)
    probe,       \* a Sitting instance and what its score properties return (SpecScore)
    recorded,    \* what update_score was asked to record so far (an observation)
    taken,       \* the TakenCourse table
    semesters,   \* the Semester table
    level,       \* Student.level of every student
    graded,      \* the last call of the grading code and what it returned
    quizzes,     \* the rows of the Quiz table other than the quiz being taken
    saved        \* the last Quiz.save and whether it raised (an observation)

vars == <<quiz, sittings, nextId, progress, clock, toggles, completedBy, last,
          reqs, started, probe, recorded, taken, semesters, level, graded,
          quizzes, saved>>

\* the state of the result app
GradeVars == <<taken, semesters, level, graded>>

\* the other quizzes and the last Quiz.save
QuizVars == <<quizzes, saved>>

(***************************************************************************)
(* Quiz                                                                    *)
(***************************************************************************)
\* mutant of QuizSave: exam_paper is not forced for a single-attempt quiz
QuizSave_unforced(q) ==
    IF ~(0 <= q.pass_mark /\ q.pass_mark <= 100) THEN <<>> ELSE <<q>>

\* mutant of QuizSave: the pass mark is not looked at
QuizSave_unvalidated(q) ==
    LET q1 == IF q.single_attempt THEN [q EXCEPT !.exam_paper = TRUE] ELSE q
    IN  <<q1>>

\* Quiz.save: the row that is written, or <<>> when ValidationError is raised
QuizSave(q) ==
    LET q1 == IF q.single_attempt THEN [q EXCEPT !.exam_paper = TRUE] ELSE q
    IN  IF ~(0 <= q1.pass_mark /\ q1.pass_mark <= 100) THEN <<>> ELSE <<q1>>

\* what the quiz form may hold
QuizInputs ==
    [ id : {TheQuiz}, random_order : BOOLEAN, exam_paper : BOOLEAN,
      single_attempt : BOOLEAN, pass_mark : PassMarkInputs, questions : {QuestionSet} ]

(***************************************************************************)
(* Question.check_if_correct                                               *)
(***************************************************************************)
QuestionById(qid) == CHOOSE q \in Questions : q.id = qid

\* MCQuestion.check_if_correct
MCQuestion_check_if_correct(question, guess) ==
    IF ~ValidInt(guess) THEN FALSE
    ELSE IF ~\E c \in Choices : c.id = StrToInt(guess) THEN FALSE
    ELSE (CHOOSE c \in Choices : c.id = StrToInt(guess)).correct

\* EssayQuestion.check_if_correct
EssayQuestion_check_if_correct(question, guess) == FALSE

check_if_correct(question, guess) ==
    IF question.kind = "EssayQuestion" THEN EssayQuestion_check_if_correct(question, guess)
    ELSE MCQuestion_check_if_correct(question, guess)

(***************************************************************************)
(* Sitting: the methods, as functions of the instance                      *)
(***************************************************************************)
\* "no question": what get_first_question returns for an empty question_list
NoQuestion == [id |-> 0, kind |-> "False"]

\* mutant of new_sitting: the first question is left out of question_list
new_sitting_short(pk, user, q, course, question_ids, now) ==
    [ id |-> pk, user |-> user, quiz |-> q.id, course |-> course,
      question_order |-> Join(question_ids) \o <<",">>,
      question_list |-> IF Len(question_ids) = 1 THEN <<>>
                        ELSE Join(Tail(question_ids)) \o <<",">>,
      incorrect_questions |-> <<>>,
      current_score |-> 0,
      complete |-> FALSE,
      user_answers |-> <<>>,
      start |-> now,
      end |-> <<>> ]

\* SittingManager.new_sitting: the row create() inserts
new_sitting(pk, user, q, course, question_ids, now) ==
    [ id |-> pk, user |-> user, quiz |-> q.id, course |-> course,
      question_order |-> Join(question_ids) \o <<",">>,
      question_list |-> Join(question_ids) \o <<",">>,
      incorrect_questions |-> <<>>,
      current_score |-> 0,
      complete |-> FALSE,
      user_answers |-> <<>>,
      start |-> now,
      end |-> <<>> ]

get_first_question(s) ==
    IF Len(s.question_list) = 0 THEN NoQuestion
    ELSE QuestionById(StrToInt(Split1(s.question_list)[1]))

\* mutant of remove_first_question: the last question is removed
remove_first_question_last(s) ==
    IF Len(s.question_list) = 0 THEN s
    ELSE LET ids == ParseIds(s.question_list)
         IN  [s EXCEPT !.question_list =
                 IF Len(ids) = 1 THEN <<>>
                 ELSE Join(SubSeq(ids, 1, Len(ids) - 1)) \o <<",">>]

\* mutant of remove_first_question: the early return is always taken
remove_first_question_kept(s) == s

remove_first_question(s) ==
    IF Len(s.question_list) = 0 THEN s
    ELSE [s EXCEPT !.question_list = Split1(s.question_list)[2]]

add_to_score(s, points) == [s EXCEPT !.current_score = s.current_score + points]

_question_ids(s) == ParseIds(s.question_order)

\* int(round(x)) for x = num / den, den > 0: Python rounds halves to even
RoundHalfEven(num, den) ==
    LET q == num \div den
        r == num % den
    IN  IF 2 * r < den THEN q
        ELSE IF 2 * r > den THEN q + 1
        ELSE IF q % 2 = 0 THEN q ELSE q + 1

Min(a, b) == IF a < b THEN a ELSE b
Max(a, b) == IF a > b THEN a ELSE b

PercentOf(score, total_questions) ==
    IF total_questions = 0 THEN 0
    ELSE Min(Max(RoundHalfEven(score * 100, total_questions), 0), 100)

\* mutant of get_percent_correct: the remaining questions are the denominator
get_percent_correct_remaining(s) == PercentOf(s.current_score, Len(ParseIds(s.question_list)))

get_percent_correct(s) == PercentOf(s.current_score, Len(_question_ids(s)))

\* mutant of check_if_passed: the pass mark itself does not pass
check_if_passed_strict(s, q) ==
    PercentOf(s.current_score, Len(ParseIds(s.question_order))) > q.pass_mark

check_if_passed(s, q) == get_percent_correct(s) >= q.pass_mark

\* mutant of mark_quiz_complete: end is not set
mark_quiz_complete_unstamped(s, now) == [s EXCEPT !.complete = TRUE]

mark_quiz_complete(s, now) == [s EXCEPT !.complete = TRUE, !.end = <<now>>]

get_incorrect_questions(s) == ParseIds(s.incorrect_questions)

add_incorrect_question(s, question) ==
    LET s1 == [s EXCEPT !.incorrect_questions =
                    Join(Append(get_incorrect_questions(s), question.id)) \o <<",">>]
    IN  IF s1.complete THEN add_to_score(s1, -1) ELSE s1

\* mutant of remove_incorrect_question: the score is not credited
remove_incorrect_question_uncredited(s, question) ==
    IF InList(question.id, ParseIds(s.incorrect_questions))
    THEN [s EXCEPT !.incorrect_questions =
                Join(ListRemove(ParseIds(s.incorrect_questions), question.id)) \o <<",">>]
    ELSE s

remove_incorrect_question(s, question) ==
    IF InList(question.id, get_incorrect_questions(s))
    THEN add_to_score(
            [s EXCEPT !.incorrect_questions =
                Join(ListRemove(get_incorrect_questions(s), question.id)) \o <<",">>], 1)
    ELSE s

\* user_answers[str(question.id)] = guess on the decoded JSON object
add_user_answer(s, question, guess) ==
    LET key == IntToStr(question.id)
        d == s.user_answers
    IN  [s EXCEPT !.user_answers =
            IF \E i \in 1..Len(d) : d[i][1] = key
            THEN [i \in 1..Len(d) |-> IF d[i][1] = key THEN <<key, guess>> ELSE d[i]]
            ELSE Append(d, <<key, guess>>)]

\* Sitting.progress: (answered, total)
Sitting_progress(s) == <<Len(s.user_answers), Len(_question_ids(s))>>

(***************************************************************************)
(* Progress                                                                *)
(***************************************************************************)
\* str(question.quiz): the many-to-many manager prints as "<label>.None"
QuizKey(question) == "quiz.Quiz.None"

\* mutant of update_score: the entry that is found is overwritten
update_score_overwrite(score, question, score_to_add, possible_to_add) ==
    IF \E i \in 1..Len(score) : score[i][1] = QuizKey(question)
    THEN [i \in 1..Len(score) |->
            IF score[i][1] = QuizKey(question)
            THEN <<QuizKey(question), score_to_add, possible_to_add>> ELSE score[i]]
    ELSE Append(score, <<QuizKey(question), score_to_add, possible_to_add>>)

\* Progress.update_score on the packed score, a sequence of
\* <<key, score, possible>> entries ("key,score,possible," each), with integer
\* arguments.  The pattern key,\d+,\d+, matches the first entry of the key
\* whose two numbers carry no sign; replace() rewrites every entry equal to it.
update_score(score, question, score_to_add, possible_to_add) ==
    LET Matches(i) ==
            score[i][1] = QuizKey(question) /\ score[i][2] >= 0 /\ score[i][3] >= 0
        abs(x) == IF x < 0 THEN -x ELSE x
    IN  IF \E i \in 1..Len(score) : Matches(i)
        THEN LET k == CHOOSE i \in 1..Len(score) :
                        Matches(i) /\ \A j \in 1..(i - 1) : ~Matches(j)
                 new_score == <<QuizKey(question), score[k][2] + abs(score_to_add),
                                score[k][3] + abs(possible_to_add)>>
             IN  [i \in 1..Len(score) |-> IF score[i] = score[k] THEN new_score ELSE score[i]]
        ELSE Append(score, <<QuizKey(question), score_to_add, possible_to_add>>)

\* isinstance(v, int) of an argument value [type, val]
isinstance_int(v) == v.type = "int"

\* mutant of update_score_call: the arguments are not tested
update_score_call_untested(score, question, score_to_add, possible_to_add) ==
    [ ret |-> "None",
      score |-> update_score(score, question, score_to_add.val, possible_to_add.val),
      saved |-> TRUE ]

\* Progress.update_score with arguments of any type: what it returns, the
\* score of the instance afterwards and whether save() ran
update_score_call(score, question, score_to_add, possible_to_add) ==
    IF ~isinstance_int(score_to_add) \/ ~isinstance_int(possible_to_add)
    THEN [ret |-> "Error", score |-> score, saved |-> FALSE]
    ELSE [ ret |-> "None",
           score |-> update_score(score, question, score_to_add.val, possible_to_add.val),
           saved |-> TRUE ]

\* Progress.objects.get_or_create(user=...): the table afterwards
ProgressGetOrCreate(table, user) ==
    IF table[user] = <<>> THEN [table EXCEPT ![user] = << <<>> >>] ELSE table

(***************************************************************************)
(* The Sitting table                                                       *)
(***************************************************************************)
HasRow(rows, pk) == \E x \in rows : x.id = pk

RowById(rows, pk) == CHOOSE x \in rows : x.id = pk

\* Model.save(): UPDATE by primary key, INSERT when no row has it (an INSERT
\* stamps the auto_now_add field start)
Save(rows, s, now) ==
    IF HasRow(rows, s.id) THEN {x \in rows : x.id # s.id} \cup {s}
    ELSE rows \cup {[s EXCEPT !.start = now]}

\* Model.delete()
Delete(rows, s) == {x \in rows : x.id # s.id}

\* filter(user=, quiz=, course=, complete=)
Filter(rows, user, q, course, complete) ==
    {x \in rows : x.user = user /\ x.quiz = q.id /\ x.course = course /\ x.complete = complete}

\* mutant of First: the highest primary key
First_latest(rows) == CHOOSE x \in rows : \A y \in rows : x.id >= y.id

\* QuerySet.first() of a non-empty unordered queryset: lowest primary key
First(rows) == CHOOSE x \in rows : \A y \in rows : x.id <= y.id

\* the question ids new_sitting may read from the quiz
QuestionOrders(q) == IF q.random_order THEN Orderings(q.questions) ELSE {q.questions}

\* user_sitting reaches new_sitting
Creates(rows, user, q, course) ==
    /\ ~(q.single_attempt /\ Filter(rows, user, q, course, TRUE) # {})
    /\ Filter(rows, user, q, course, FALSE) = {}

\* mutant of user_sitting: the lookup of the non-complete sitting is skipped
user_sitting_always_new(rows, user, q, course, pk, question_ids, now) ==
    IF q.single_attempt /\ Filter(rows, user, q, course, TRUE) # {}
    THEN [ret |-> "False", sitting |-> <<>>, rows |-> rows, created |-> FALSE]
    ELSE [ret |-> "sitting",
          sitting |-> <<new_sitting(pk, user, q, course, question_ids, now)>>,
          rows |-> rows \cup {new_sitting(pk, user, q, course, question_ids, now)},
          created |-> TRUE]

\* mutant of user_sitting: new_sitting does not test for an empty question set
user_sitting_unguarded(rows, user, q, course, pk, question_ids, now) ==
    IF q.single_attempt /\ Filter(rows, user, q, course, TRUE) # {}
    THEN [ret |-> "False", sitting |-> <<>>, rows |-> rows, created |-> FALSE]
    ELSE LET found == Filter(rows, user, q, course, FALSE)
             s == new_sitting(pk, user, q, course, question_ids, now)
         IN  IF Cardinality(found) = 1
             THEN [ret |-> "sitting", sitting |-> <<CHOOSE x \in found : TRUE>>,
                   rows |-> rows, created |-> FALSE]
             ELSE IF found = {}
             THEN [ret |-> "sitting", sitting |-> <<s>>, rows |-> rows \cup {s},
                   created |-> TRUE]
             ELSE [ret |-> "sitting", sitting |-> <<First(found)>>,
                   rows |-> rows, created |-> FALSE]

\* mutant of user_sitting: the sitting that is found starts over
user_sitting_restart(rows, user, q, course, pk, question_ids, now) ==
    IF q.single_attempt /\ Filter(rows, user, q, course, TRUE) # {}
    THEN [ret |-> "False", sitting |-> <<>>, rows |-> rows, created |-> FALSE]
    ELSE LET found == Filter(rows, user, q, course, FALSE)
         IN  IF found # {}
             THEN LET s == new_sitting(First(found).id, user, q, course, question_ids,
                                       First(found).start)
                  IN  [ret |-> "sitting", sitting |-> <<s>>,
                       rows |-> (rows \ {First(found)}) \cup {s}, created |-> FALSE]
             ELSE IF Len(question_ids) = 0
             THEN [ret |-> "ImproperlyConfigured", sitting |-> <<>>,
                   rows |-> rows, created |-> FALSE]
             ELSE LET s == new_sitting(pk, user, q, course, question_ids, now)
                  IN  [ret |-> "sitting", sitting |-> <<s>>,
                       rows |-> rows \cup {s}, created |-> TRUE]

\* SittingManager.user_sitting, run without interruption.  pk, question_ids
\* and now are what new_sitting uses if it is called.
user_sitting(rows, user, q, course, pk, question_ids, now) ==
    IF q.single_attempt /\ Filter(rows, user, q, course, TRUE) # {}
    THEN [ret |-> "False", sitting |-> <<>>, rows |-> rows, created |-> FALSE]
    ELSE LET found == Filter(rows, user, q, course, FALSE)
         IN  IF Cardinality(found) = 1
             THEN [ret |-> "sitting", sitting |-> <<CHOOSE x \in found : TRUE>>,
                   rows |-> rows, created |-> FALSE]
             ELSE IF found = {}
             THEN IF Len(question_ids) = 0
                  THEN [ret |-> "ImproperlyConfigured", sitting |-> <<>>,
                        rows |-> rows, created |-> FALSE]
                  ELSE LET s == new_sitting(pk, user, q, course, question_ids, now)
                       IN  [ret |-> "sitting", sitting |-> <<s>>,
                            rows |-> rows \cup {s}, created |-> TRUE]
             ELSE [ret |-> "sitting", sitting |-> <<First(found)>>,
                   rows |-> rows, created |-> FALSE]

(***************************************************************************)
(* QuizTake                                                                *)
(***************************************************************************)
\* QuizTake.dispatch up to the sitting: a quiz without questions is turned away
dispatch(rows, user, q, course, pk, question_ids, now) ==
    IF Len(q.questions) = 0
    THEN [ret |-> "no questions", sitting |-> <<>>, rows |-> rows, created |-> FALSE]
    ELSE user_sitting(rows, user, q, course, pk, question_ids, now)

\* mutant of form_valid_user: a wrong answer is flagged but not recorded in
\* the ledger
form_valid_user_unrecorded(s, score, question, guess) ==
    LET is_correct == check_if_correct(question, guess)
        s1 == IF is_correct THEN add_to_score(s, 1) ELSE add_incorrect_question(s, question)
        score1 == IF is_correct THEN update_score(score, question, 1, 1) ELSE score
    IN  [ sitting |-> remove_first_question(add_user_answer(s1, question, guess)),
          score |-> score1,
          is_correct |-> is_correct ]

\* QuizTake.form_valid_user on the view's sitting and the user's Progress score
form_valid_user(s, score, question, guess) ==
    LET is_correct == check_if_correct(question, guess)
        s1 == IF is_correct THEN add_to_score(s, 1) ELSE add_incorrect_question(s, question)
        score1 == update_score(score, question, IF is_correct THEN 1 ELSE 0, 1)
    IN  [ sitting |-> remove_first_question(add_user_answer(s1, question, guess)),
          score |-> score1,
          is_correct |-> is_correct ]

\* mutant of DeletesSitting: only the exam_paper flag decides
DeletesSitting_exam_only(q, user) == ~q.exam_paper

\* the condition under which final_result_user deletes the sitting
DeletesSitting(q, user) == ~q.exam_paper \/ is_superuser(user) \/ is_lecturer(user)

\* QuizTake.final_result_user
final_result_user(s, q, user, now) ==
    [ sitting |-> mark_quiz_complete(s, now), delete |-> DeletesSitting(q, user) ]

NoLast ==
    [ op |-> "none", user |-> "", ret |-> "", sid |-> 0, created |-> FALSE,
      finalized |-> FALSE, deleted |-> FALSE, hadCompleted |-> FALSE,
      qid |-> 0, n |-> 0, before |-> <<>>, after |-> <<>> ]

NoProbe == [ sitting |-> <<>>, pass_mark |-> 0, percent |-> <<>>, passed |-> <<>> ]

\* the quizzes whose questions are recorded in a ledger
LedgerQuizzes == {TheQuiz, "q2"}

\* nothing recorded yet: per quiz the sum of the deltas of the calls that
\* reached the ledger, their number, and whether every delta so far was a
\* non-negative integer
NoRecorded ==
    [ sums |-> [z \in LedgerQuizzes |-> <<0, 0>>],
      calls |-> [z \in LedgerQuizzes |-> 0],
      clean |-> TRUE ]

\* students of the result app and the levels a student may be at
Students == {"s1", "s2"}

Levels == {"L1", "L2"}

NoGraded == [ op |-> "none", id |-> 0, before |-> <<>>, ret |-> <<>> ]

NoSaved == [ op |-> "none", form |-> <<>>, raised |-> FALSE ]

\* no quiz but the one being taken, and none saved since
NoQuizSaved ==
    /\ quizzes = {}
    /\ saved = NoSaved

\* the result app is not in use: its tables are empty
NoGrading ==
    /\ taken = {}
    /\ semesters = {}
    /\ level = [s \in Students |-> "L1"]
    /\ graded = NoGraded

\* the quizzes Quiz.save lets through
SavedQuizzes == { QuizSave(q)[1] : q \in {x \in QuizInputs : QuizSave(x) # <<>>} }

\* the workers serving requests, and a worker without a request
Workers == {"w1", "w2"}

Student == "stu"

NoRequest ==
    [ pc |-> "idle", sitting |-> <<>>, score |-> <<>>, guess |-> <<>>, qid |-> 0,
      noPrior |-> FALSE, dup |-> FALSE ]

Init ==
    /\ quiz \in SavedQuizzes
    /\ sittings = {}
    /\ nextId = 1
    /\ progress = [u \in Users |-> <<>>]
    /\ clock = 0
    /\ toggles = 0
    /\ completedBy = {}
    /\ last = NoLast
    /\ reqs = [w \in Workers |-> NoRequest]
    /\ started = 0
    /\ probe = NoProbe
    /\ recorded = NoRecorded
    /\ NoGrading
    /\ NoQuizSaved

\* the orders new_sitting may draw in this state, if the request creates a sitting
OrdersNow(u) ==
    IF Creates(sittings, u, quiz, TheCourse) THEN QuestionOrders(quiz) ELSE {quiz.questions}

\* GET of the quiz-taking view: dispatch, then the question form is rendered
Get(u) ==
    \E question_ids \in OrdersNow(u) :
        LET r == dispatch(sittings, u, quiz, TheCourse, nextId, question_ids, clock + 1)
        IN  /\ r.created => nextId <= MaxSittings
            /\ sittings' = r.rows
            /\ nextId' = IF r.created THEN nextId + 1 ELSE nextId
            /\ clock' = IF r.created THEN clock + 1 ELSE clock
            /\ last' = [NoLast EXCEPT !.op = "get", !.user = u, !.ret = r.ret,
                            !.sid = IF r.sitting = <<>> THEN 0 ELSE r.sitting[1].id,
                            !.created = r.created,
                            !.hadCompleted = u \in completedBy]
            /\ UNCHANGED <<quiz, progress, toggles, completedBy, reqs, started, probe, recorded, GradeVars, QuizVars>>

\* POST of the quiz-taking view: dispatch, form_valid_user and, after the last
\* question, final_result_user (each value the view computes is bound once)
Post(u, guess) ==
    \E question_ids \in OrdersNow(u) :
      \E r \in {dispatch(sittings, u, quiz, TheCourse, nextId, question_ids, clock + 1)} :
      \E t1 \in {IF r.created THEN clock + 1 ELSE clock} :
      \E table \in {ProgressGetOrCreate(progress, u)} :
            /\ r.created => nextId <= MaxSittings
            /\ nextId' = IF r.created THEN nextId + 1 ELSE nextId
            /\ IF r.ret # "sitting" \/ get_first_question(r.sitting[1]) = NoQuestion
               THEN /\ sittings' = r.rows
                    /\ clock' = t1
                    /\ UNCHANGED <<progress, completedBy>>
                    /\ last' = [NoLast EXCEPT !.op = "post", !.user = u,
                                    !.ret = IF r.ret = "sitting" THEN "no question" ELSE r.ret,
                                    !.created = r.created,
                                    !.hadCompleted = u \in completedBy]
               ELSE \E s0 \in {r.sitting[1]} :
                    \E a \in {form_valid_user(s0, table[u][1], get_first_question(s0), guess)} :
                    \E done \in {get_first_question(a.sitting) = NoQuestion} :
                    \E f \in {final_result_user(a.sitting, quiz, u, t1 + 1)} :
                    /\ clock' = IF done THEN t1 + 1 ELSE t1
                    /\ progress' = [table EXCEPT ![u] = <<a.score>>]
                    /\ sittings' =
                         IF ~done THEN Save(r.rows, a.sitting, t1)
                         ELSE IF f.delete THEN Delete(r.rows, f.sitting)
                         ELSE Save(r.rows, f.sitting, t1 + 1)
                    /\ completedBy' = IF done THEN completedBy \cup {u} ELSE completedBy
                    /\ last' = [NoLast EXCEPT !.op = "post", !.user = u, !.ret = "sitting",
                                    !.sid = s0.id, !.created = r.created,
                                    !.finalized = done, !.deleted = done /\ f.delete,
                                    !.hadCompleted = u \in completedBy,
                                    !.before = <<[sitting |-> s0, score |-> table[u][1]]>>,
                                    !.after = <<[sitting |-> a.sitting, score |-> a.score,
                                                 guess |-> guess]>>]
            /\ UNCHANGED <<quiz, toggles, reqs, started, probe, recorded, GradeVars, QuizVars>>

\* QuizMarkingDetail.post with qid set: toggles the question of the sitting
toggle_incorrect(s, qid) ==
    IF InList(qid, get_incorrect_questions(s))
    THEN remove_incorrect_question(s, QuestionById(qid))
    ELSE add_incorrect_question(s, QuestionById(qid))

\* what a marking POST leaves of the sitting it found, for comparison
Marks(s) ==
    [ current_score |-> s.current_score,
      incorrect |-> get_incorrect_questions(s),
      complete |-> s.complete ]

\* POST of the marking view on any Sitting and any existing Question
MarkingPost(pk, qid) ==
    /\ toggles < MaxToggles
    /\ HasRow(sittings, pk)
    /\ LET s == RowById(sittings, pk)
           again == last.op = "mark" /\ last.sid = pk /\ last.qid = qid /\ last.n = 1
       IN  /\ sittings' = Save(sittings, toggle_incorrect(s, qid), clock)
           /\ last' = [NoLast EXCEPT !.op = "mark", !.sid = pk, !.qid = qid,
                           !.n = IF again THEN 2 ELSE 1,
                           !.before = IF again THEN last.before ELSE <<Marks(s)>>]
    /\ toggles' = toggles + 1
    /\ UNCHANGED <<quiz, nextId, progress, clock, completedBy, reqs, started, probe, recorded, GradeVars, QuizVars>>

\* Every user may open and answer the quiz; requests are served one at a time.
Next ==
    \/ \E u \in Users : Get(u)
    \/ \E u \in Users, guess \in Guesses : Post(u, guess)

Spec == Init /\ [][Next]_vars

\* One student takes the quiz while the marking view toggles questions.
NextMark ==
    /\ \/ Get("stu")
       \/ \E guess \in Guesses : Post("stu", guess)
       \/ \E pk \in 1..MaxMarked, q \in Questions : MarkingPost(pk, q.id)
    /\ nextId' <= MaxMarked + 1

SpecMark == Init /\ [][NextMark]_vars

(***************************************************************************)
(* SpecDir: SittingManager.user_sitting called on its own, on quizzes with *)
(* and without questions, while users answer                               *)
(***************************************************************************)
\* a quiz as QuizCreateView leaves it (no question yet), or with its questions
DirQuizzes == SavedQuizzes \cup { [q EXCEPT !.questions = <<>>] : q \in SavedQuizzes }

InitDir ==
    /\ quiz \in DirQuizzes
    /\ sittings = {}
    /\ nextId = 1
    /\ progress = [u \in Users |-> <<>>]
    /\ clock = 0
    /\ toggles = 0
    /\ completedBy = {}
    /\ last = NoLast
    /\ reqs = [w \in Workers |-> NoRequest]
    /\ started = 0
    /\ probe = NoProbe
    /\ recorded = NoRecorded
    /\ NoGrading
    /\ NoQuizSaved

\* Sitting.objects.user_sitting(user, quiz, course)
UserSitting(u) ==
    \E question_ids \in OrdersNow(u) :
        LET r == user_sitting(sittings, u, quiz, TheCourse, nextId, question_ids, clock + 1)
        IN  /\ r.created => nextId <= MaxSittings
            /\ sittings' = r.rows
            /\ nextId' = IF r.created THEN nextId + 1 ELSE nextId
            /\ clock' = IF r.created THEN clock + 1 ELSE clock
            /\ last' = [NoLast EXCEPT !.op = "user_sitting", !.user = u, !.ret = r.ret,
                            !.sid = IF r.sitting = <<>> THEN 0 ELSE r.sitting[1].id,
                            !.created = r.created,
                            !.hadCompleted = u \in completedBy]
            /\ UNCHANGED <<quiz, progress, toggles, completedBy, reqs, started, probe,
                           recorded, GradeVars, QuizVars>>

\* MCQuestionCreate.form_valid: the first question is attached to the quiz
AddQuestion ==
    /\ quiz.questions = <<>>
    /\ quiz' = [quiz EXCEPT !.questions = <<Head(QuestionSet)>>]
    /\ last' = [NoLast EXCEPT !.op = "mc_create"]
    /\ UNCHANGED <<sittings, nextId, progress, clock, toggles, completedBy, reqs, started,
                   probe, recorded, GradeVars, QuizVars>>

NextDir ==
    \/ \E u \in Users : UserSitting(u)
    \/ \E u \in Users, guess \in Guesses : Post(u, guess)
    \/ AddQuestion

SpecDir == InitDir /\ [][NextDir]_vars

(***************************************************************************)
(* SpecLedger: Progress.update_score on the student's Progress row, for    *)
(* questions of two quizzes and arguments of any type                      *)
(***************************************************************************)
\* calls of update_score that reach the ledger in one behaviour
MaxRecords == 3

\* a question of the quiz
QuestionOf(z) == IF z = TheQuiz THEN QuestionById(1) ELSE QuestionById(3)

\* argument values: the integers -1, 0, 1 and the float 1.0
Deltas ==
    { [type |-> "int", val |-> n] : n \in {-1, 0, 1} } \cup { [type |-> "float", val |-> 1] }

\* update_score reads no field of the Quiz row: one plain quiz stands for all
InitLedger ==
    /\ quiz \in {q \in SavedQuizzes : ~q.random_order /\ ~q.exam_paper}
    /\ sittings = {}
    /\ nextId = 1
    /\ progress = ProgressGetOrCreate([u \in Users |-> <<>>], Student)
    /\ clock = 0
    /\ toggles = 0
    /\ completedBy = {}
    /\ last = NoLast
    /\ reqs = [w \in Workers |-> NoRequest]
    /\ started = 0
    /\ probe = NoProbe
    /\ recorded = NoRecorded
    /\ NoGrading
    /\ NoQuizSaved

\* progress.update_score(question, score_to_add, possible_to_add) on the
\* student's Progress row, for a question of quiz z
Record(z, score_to_add, possible_to_add) ==
    LET before == progress[Student][1]
        r == update_score_call(before, QuestionOf(z), score_to_add, possible_to_add)
    IN  /\ r.saved => recorded.calls[TheQuiz] + recorded.calls["q2"] < MaxRecords
        /\ progress' = [progress EXCEPT ![Student] = <<r.score>>]
        /\ recorded' =
              IF ~r.saved THEN recorded
              ELSE [ sums |-> [recorded.sums EXCEPT
                                ![z] = <<@[1] + score_to_add.val, @[2] + possible_to_add.val>>],
                     calls |-> [recorded.calls EXCEPT ![z] = @ + 1],
                     clean |-> recorded.clean /\ score_to_add.val >= 0
                                              /\ possible_to_add.val >= 0 ]
        /\ last' = [NoLast EXCEPT !.op = "record", !.user = Student, !.ret = r.ret,
                        !.before = <<before>>,
                        !.after = <<[quiz |-> z, score_to_add |-> score_to_add,
                                     possible_to_add |-> possible_to_add,
                                     saved |-> r.saved]>>]
        /\ UNCHANGED <<quiz, sittings, nextId, clock, toggles, completedBy, reqs, started,
                       probe, GradeVars, QuizVars>>

NextLedger ==
    \E z \in LedgerQuizzes, score_to_add \in Deltas, possible_to_add \in Deltas :
        Record(z, score_to_add, possible_to_add)

SpecLedger == InitLedger /\ [][NextLedger]_vars

(***************************************************************************)
(* SpecScore: get_percent_correct and check_if_passed on Sitting instances *)
(***************************************************************************)
\* a Sitting over the questions 1..n of which the first `answered` are
\* answered, with the given score; the answered questions beyond the score
\* are flagged incorrect
ProbeSitting(n, answered, score) ==
    LET ids == [i \in 1..n |-> i]
        wrong == IF 0 <= score /\ score <= answered
                 THEN SubSeq(ids, score + 1, answered) ELSE <<>>
    IN  [ id |-> 1, user |-> "stu", quiz |-> TheQuiz, course |-> TheCourse,
          question_order |-> IF n = 0 THEN <<>> ELSE Join(ids) \o <<",">>,
          question_list |-> IF answered = n THEN <<>>
                            ELSE Join(SubSeq(ids, answered + 1, n)) \o <<",">>,
          incorrect_questions |-> IF wrong = <<>> THEN <<>> ELSE Join(wrong) \o <<",">>,
          current_score |-> score,
          complete |-> answered = n,
          user_answers |-> [i \in 1..answered |-> <<IntToStr(i), <<"1">> >>],
          start |-> 0,
          end |-> <<>> ]

InitScore ==
    /\ quiz \in SavedQuizzes
    /\ sittings = {}
    /\ nextId = 1
    /\ progress = [u \in Users |-> <<>>]
    /\ clock = 0
    /\ toggles = 0
    /\ completedBy = {}
    /\ last = NoLast
    /\ reqs = [w \in Workers |-> NoRequest]
    /\ started = 0
    /\ \E n \in 0..MaxProbe, pm \in ProbePassMarks :
         \E answered \in 0..n, score \in (-1)..(n + 1) :
            probe = [ sitting |-> <<ProbeSitting(n, answered, score)>>, pass_mark |-> pm,
                      percent |-> <<>>, passed |-> <<>> ]
    /\ recorded = NoRecorded
    /\ NoGrading
    /\ NoQuizSaved

\* the properties are read, as the result page of final_result_user reads them
Evaluate ==
    /\ probe.percent = <<>>
    /\ probe' = [probe EXCEPT
                    !.percent = <<get_percent_correct(probe.sitting[1])>>,
                    !.passed = <<check_if_passed(probe.sitting[1],
                                                 [quiz EXCEPT !.pass_mark = probe.pass_mark])>>]
    /\ UNCHANGED <<quiz, sittings, nextId, progress, clock, toggles, completedBy, last,
                   reqs, started, recorded, GradeVars, QuizVars>>

SpecScore == InitScore /\ [][Evaluate]_vars

(***************************************************************************)
(* SpecConc: requests of one student and of the marking view, served by    *)
(* two workers.  Every database statement is a step; each request works    *)
(* on the Sitting and Progress instances it loaded and save() writes the   *)
(* whole instance back.                                                    *)
(***************************************************************************)
InitConc ==
    /\ quiz \in SavedQuizzes
    /\ sittings = {}
    /\ nextId = 1
    /\ progress = [u \in Users |-> <<>>]
    /\ clock = 0
    /\ toggles = 0
    /\ completedBy = {}
    /\ last = NoLast
    /\ reqs = [w \in Workers |-> NoRequest]
    /\ started = 0
    /\ probe = NoProbe
    /\ recorded = NoRecorded
    /\ NoGrading
    /\ NoQuizSaved

ConcFrame == <<quiz, toggles, completedBy, last, probe, recorded, GradeVars, QuizVars>>

\* the worker's request moves on; its other fields stay
Goto(w, pc) == reqs' = [reqs EXCEPT ![w].pc = pc]

Finish(w) == reqs' = [reqs EXCEPT ![w] = NoRequest]

\* a request for the quiz-taking view arrives; dispatch finds the quiz has questions
TakeStart(w) ==
    /\ reqs[w] = NoRequest
    /\ started < MaxRequests
    /\ Len(quiz.questions) > 0
    /\ started' = started + 1
    /\ Goto(w, "exists")
    /\ UNCHANGED <<sittings, nextId, progress, clock>> /\ UNCHANGED ConcFrame

\* user_sitting: the single-attempt test
TakeExists(w) ==
    /\ reqs[w].pc = "exists"
    /\ IF quiz.single_attempt /\ Filter(sittings, Student, quiz, TheCourse, TRUE) # {}
       THEN Finish(w)
       ELSE Goto(w, "get")
    /\ UNCHANGED <<sittings, nextId, progress, clock, started>> /\ UNCHANGED ConcFrame

\* user_sitting: self.get(user=, quiz=, course=, complete=False)
TakeGet(w) ==
    /\ reqs[w].pc = "get"
    /\ LET found == Filter(sittings, Student, quiz, TheCourse, FALSE)
       IN  reqs' = [reqs EXCEPT ![w] =
                IF Cardinality(found) = 1
                THEN [@ EXCEPT !.pc = "loaded", !.sitting = <<CHOOSE x \in found : TRUE>>]
                ELSE IF found = {}
                THEN [@ EXCEPT !.pc = "create",
                               !.noPrior = Filter(sittings, Student, quiz, TheCourse, TRUE) = {}]
                ELSE [@ EXCEPT !.pc = "first"]]
    /\ UNCHANGED <<sittings, nextId, progress, clock, started>> /\ UNCHANGED ConcFrame

\* user_sitting: new_sitting after DoesNotExist, up to the instance create()
\* builds; the auto_now_add field start is stamped before the INSERT is sent
TakeCreate(w) ==
    /\ reqs[w].pc = "create"
    /\ \E question_ids \in QuestionOrders(quiz) :
         reqs' = [reqs EXCEPT ![w].pc = "insert",
                     ![w].sitting = <<new_sitting(0, Student, quiz, TheCourse, question_ids,
                                                  clock + 1)>>]
    /\ clock' = clock + 1
    /\ UNCHANGED <<sittings, nextId, progress, started>> /\ UNCHANGED ConcFrame

\* new_sitting: the INSERT of create(); the database hands out the primary key
TakeInsert(w) ==
    /\ reqs[w].pc = "insert"
    /\ nextId <= MaxSittings
    /\ LET s == [reqs[w].sitting[1] EXCEPT !.id = nextId]
       IN  /\ sittings' = sittings \cup {s}
           /\ reqs' = [reqs EXCEPT ![w].pc = "loaded", ![w].sitting = <<s>>]
    /\ nextId' = nextId + 1
    /\ UNCHANGED <<progress, clock, started>> /\ UNCHANGED ConcFrame

\* user_sitting: filter(...).first() after MultipleObjectsReturned; with no
\* row left dispatch turns the request away
TakeFirst(w) ==
    /\ reqs[w].pc = "first"
    /\ LET found == Filter(sittings, Student, quiz, TheCourse, FALSE)
       IN  IF found = {} THEN Finish(w)
           ELSE reqs' = [reqs EXCEPT ![w].pc = "loaded", ![w].sitting = <<First(found)>>,
                                     ![w].dup = TRUE]
    /\ UNCHANGED <<sittings, nextId, progress, clock, started>> /\ UNCHANGED ConcFrame

\* a GET, or a POST for a sitting without a question left, ends after dispatch
TakeRender(w) ==
    /\ reqs[w].pc = "loaded"
    /\ Finish(w)
    /\ UNCHANGED <<sittings, nextId, progress, clock, started>> /\ UNCHANGED ConcFrame

\* form_valid_user of a POST: Progress.objects.get_or_create
TakeProgress(w) ==
    /\ reqs[w].pc = "loaded"
    /\ get_first_question(reqs[w].sitting[1]) # NoQuestion
    /\ progress' = ProgressGetOrCreate(progress, Student)
    /\ reqs' = [reqs EXCEPT ![w].pc = "score", ![w].score = progress'[Student]]
    /\ UNCHANGED <<sittings, nextId, clock, started>> /\ UNCHANGED ConcFrame

\* form_valid_user: add_to_score(1) or add_incorrect_question, each saving
TakeScore(w) ==
    /\ reqs[w].pc = "score"
    /\ \E guess \in Guesses :
         LET s == reqs[w].sitting[1]
             question == get_first_question(s)
             s1 == IF check_if_correct(question, guess) THEN add_to_score(s, 1)
                   ELSE add_incorrect_question(s, question)
         IN  /\ sittings' = Save(sittings, s1, clock + 1)
             /\ clock' = IF HasRow(sittings, s.id) THEN clock ELSE clock + 1
             /\ reqs' = [reqs EXCEPT ![w].pc = "ledger", ![w].guess = guess,
                                     ![w].sitting = <<RowById(sittings', s.id)>>]
    /\ UNCHANGED <<nextId, progress, started>> /\ UNCHANGED ConcFrame

\* form_valid_user: progress.update_score, which saves the Progress instance
TakeLedger(w) ==
    /\ reqs[w].pc = "ledger"
    /\ LET s == reqs[w].sitting[1]
           question == get_first_question(s)
           is_correct == check_if_correct(question, reqs[w].guess)
           score1 == update_score(reqs[w].score[1], question, IF is_correct THEN 1 ELSE 0, 1)
       IN  /\ progress' = [progress EXCEPT ![Student] = <<score1>>]
           /\ reqs' = [reqs EXCEPT ![w].pc = "answer", ![w].score = <<score1>>]
    /\ UNCHANGED <<sittings, nextId, clock, started>> /\ UNCHANGED ConcFrame

\* save() of the worker's sitting instance after a method changed it
SaveStep(w, s1, pc) ==
    /\ sittings' = Save(sittings, s1, clock + 1)
    /\ clock' = IF HasRow(sittings, s1.id) THEN clock ELSE clock + 1
    /\ reqs' = [reqs EXCEPT ![w] = IF pc = "idle" THEN NoRequest
                                   ELSE [@ EXCEPT !.pc = pc,
                                                  !.sitting = <<RowById(sittings', s1.id)>>]]

\* form_valid_user: add_user_answer
TakeAnswer(w) ==
    /\ reqs[w].pc = "answer"
    /\ LET s == reqs[w].sitting[1]
       IN  SaveStep(w, add_user_answer(s, get_first_question(s), reqs[w].guess), "remove")
    /\ UNCHANGED <<nextId, progress, started>> /\ UNCHANGED ConcFrame

\* form_valid_user: remove_first_question; form_valid goes on to
\* final_result_user when no question is left
TakeRemove(w) ==
    /\ reqs[w].pc = "remove"
    /\ LET s1 == remove_first_question(reqs[w].sitting[1])
       IN  SaveStep(w, s1, IF get_first_question(s1) = NoQuestion THEN "complete" ELSE "idle")
    /\ UNCHANGED <<nextId, progress, started>> /\ UNCHANGED ConcFrame

\* final_result_user: mark_quiz_complete
TakeComplete(w) ==
    /\ reqs[w].pc = "complete"
    /\ LET s1 == mark_quiz_complete(reqs[w].sitting[1], clock + 1)
       IN  /\ sittings' = Save(sittings, s1, clock + 1)
           /\ reqs' = [reqs EXCEPT ![w] =
                    IF DeletesSitting(quiz, Student)
                    THEN [@ EXCEPT !.pc = "delete", !.sitting = <<RowById(sittings', s1.id)>>]
                    ELSE NoRequest]
    /\ clock' = clock + 1
    /\ UNCHANGED <<nextId, progress, started>> /\ UNCHANGED ConcFrame

\* final_result_user: self.sitting.delete()
TakeDelete(w) ==
    /\ reqs[w].pc = "delete"
    /\ sittings' = Delete(sittings, reqs[w].sitting[1])
    /\ Finish(w)
    /\ UNCHANGED <<nextId, progress, clock, started>> /\ UNCHANGED ConcFrame

\* a POST for the marking view arrives: get_object loads the sitting
MarkStart(w, pk, qid) ==
    /\ reqs[w] = NoRequest
    /\ started < MaxRequests
    /\ HasRow(sittings, pk)
    /\ started' = started + 1
    /\ reqs' = [reqs EXCEPT ![w].pc = "toggle", ![w].sitting = <<RowById(sittings, pk)>>,
                            ![w].qid = qid]
    /\ toggles' = toggles + 1
    /\ UNCHANGED <<sittings, nextId, progress, clock>>
    /\ UNCHANGED <<quiz, completedBy, last, probe, recorded, GradeVars, QuizVars>>

\* QuizMarkingDetail.post: the save() inside add_to_score, or the only save()
\* of add_incorrect_question on a sitting that is not complete
MarkToggle(w) ==
    /\ reqs[w].pc = "toggle"
    /\ LET s == reqs[w].sitting[1]
           twoSaves == InList(reqs[w].qid, get_incorrect_questions(s)) \/ s.complete
       IN  SaveStep(w, toggle_incorrect(s, reqs[w].qid), IF twoSaves THEN "saved" ELSE "idle")
    /\ UNCHANGED <<nextId, progress, started>> /\ UNCHANGED ConcFrame

\* QuizMarkingDetail.post: the save() that ends remove_incorrect_question and
\* add_incorrect_question
MarkSave(w) ==
    /\ reqs[w].pc = "saved"
    /\ SaveStep(w, reqs[w].sitting[1], "idle")
    /\ UNCHANGED <<nextId, progress, started>> /\ UNCHANGED ConcFrame

NextConc ==
    \E w \in Workers :
        \/ TakeStart(w)
        \/ TakeExists(w)
        \/ TakeGet(w)
        \/ TakeCreate(w)
        \/ TakeInsert(w)
        \/ TakeFirst(w)
        \/ TakeRender(w)
        \/ TakeProgress(w)
        \/ TakeScore(w)
        \/ TakeLedger(w)
        \/ TakeAnswer(w)
        \/ TakeRemove(w)
        \/ TakeComplete(w)
        \/ TakeDelete(w)
        \/ \E pk \in 1..MaxSittings, q \in Questions : MarkStart(w, pk, q.id)
        \/ MarkToggle(w)
        \/ MarkSave(w)

SpecConc == InitConc /\ [][NextConc]_vars

(***************************************************************************)
(* Result app: TakenCourse (result/models.py).  A Decimal with two decimal *)
(* places is the integer number of its hundredths; the grade points, which *)
(* the code converts from floats that are exact in binary, likewise.       *)
(***************************************************************************)
\* hundredths in one unit (decimal_places=2)
Scale == 100

\* largest total mark, in units, of the instances of SpecGrade
MaxTotal == 101

GRADE_BOUNDARIES ==
    << <<90, "A+">>, <<85, "A">>, <<80, "A-">>, <<75, "B+">>, <<70, "B">>, <<65, "B-">>,
       <<60, "C+">>, <<55, "C">>, <<50, "C-">>, <<45, "D">>, <<0, "F">> >>

NG == "NG"

\* grade, grade point in hundredths
GRADE_POINT_MAPPING ==
    << <<"A+", 400>>, <<"A", 400>>, <<"A-", 375>>, <<"B+", 350>>, <<"B", 300>>,
       <<"B-", 275>>, <<"C+", 250>>, <<"C", 200>>, <<"C-", 175>>, <<"D", 100>>,
       <<"F", 0>>, <<"NG", 0>> >>

\* Course rows: credit, level and semester
CourseRows ==
    { [id |-> "c1", credit |-> 1, level |-> "L1", semester |-> "First"],
      [id |-> "c2", credit |-> 7, level |-> "L1", semester |-> "First"],
      [id |-> "c3", credit |-> 0, level |-> "L1", semester |-> "First"],
      [id |-> "c4", credit |-> 3, level |-> "L2", semester |-> "Second"] }

CourseById(c) == CHOOSE x \in CourseRows : x.id = c

\* TakenCourse.get_total
get_total(tc) == tc.assignment + tc.mid_exam + tc.quiz + tc.attendance + tc.final_exam

\* mutant of get_grade: a total equal to a boundary does not meet it
get_grade_strict(tc) ==
    IF \E i \in 1..Len(GRADE_BOUNDARIES) : tc.total > GRADE_BOUNDARIES[i][1] * Scale
    THEN GRADE_BOUNDARIES[CHOOSE i \in 1..Len(GRADE_BOUNDARIES) :
                            /\ tc.total > GRADE_BOUNDARIES[i][1] * Scale
                            /\ \A j \in 1..(i - 1) :
                                  ~(tc.total > GRADE_BOUNDARIES[j][1] * Scale)][2]
    ELSE NG

\* TakenCourse.get_grade: the grade of the first boundary, in table order,
\* that self.total reaches
get_grade(tc) ==
    IF \E i \in 1..Len(GRADE_BOUNDARIES) : tc.total >= GRADE_BOUNDARIES[i][1] * Scale
    THEN GRADE_BOUNDARIES[CHOOSE i \in 1..Len(GRADE_BOUNDARIES) :
                            /\ tc.total >= GRADE_BOUNDARIES[i][1] * Scale
                            /\ \A j \in 1..(i - 1) :
                                  ~(tc.total >= GRADE_BOUNDARIES[j][1] * Scale)][2]
    ELSE NG

\* mutant of get_comment: only F fails
get_comment_f_only(tc) == IF tc.grade = "F" THEN "FAIL" ELSE "PASS"

\* TakenCourse.get_comment
get_comment(tc) == IF tc.grade \in {"F", NG} THEN "FAIL" ELSE "PASS"

\* mutant of get_point: the grade point without the credit
get_point_uncredited(tc) ==
    IF \E i \in 1..Len(GRADE_POINT_MAPPING) : GRADE_POINT_MAPPING[i][1] = tc.grade
    THEN GRADE_POINT_MAPPING[CHOOSE i \in 1..Len(GRADE_POINT_MAPPING) :
                                GRADE_POINT_MAPPING[i][1] = tc.grade][2]
    ELSE 0

\* TakenCourse.get_point: GRADE_POINT_MAPPING.get(self.grade, 0.0) times the
\* credit of the course
get_point(tc) ==
    LET grade_point ==
            IF \E i \in 1..Len(GRADE_POINT_MAPPING) : GRADE_POINT_MAPPING[i][1] = tc.grade
            THEN GRADE_POINT_MAPPING[CHOOSE i \in 1..Len(GRADE_POINT_MAPPING) :
                                        GRADE_POINT_MAPPING[i][1] = tc.grade][2]
            ELSE 0
    IN  CourseById(tc.course).credit * grade_point

\* mutant of TakenCourse_save: the grade is computed before the total
TakenCourse_save_stale(tc) ==
    LET t1 == [tc EXCEPT !.grade = get_grade(tc)]
        t2 == [t1 EXCEPT !.total = get_total(t1)]
        t3 == [t2 EXCEPT !.point = get_point(t2)]
    IN  [t3 EXCEPT !.comment = get_comment(t3)]

\* TakenCourse.save: the instance that is written
TakenCourse_save(tc) ==
    LET t1 == [tc EXCEPT !.total = get_total(tc)]
        t2 == [t1 EXCEPT !.grade = get_grade(t1)]
        t3 == [t2 EXCEPT !.point = get_point(t2)]
    IN  [t3 EXCEPT !.comment = get_comment(t3)]

\* a TakenCourse instance with default marks
NewTaken(student, course) ==
    [ id |-> 0, student |-> student, course |-> course,
      assignment |-> 0, mid_exam |-> 0, quiz |-> 0, attendance |-> 0, final_exam |-> 0,
      total |-> 0, grade |-> "", point |-> 0, comment |-> "" ]

(***************************************************************************)
(* SpecGrade: get_grade and get_point on TakenCourse instances with any    *)
(* total and any grade                                                     *)
(***************************************************************************)
\* values the grade field may hold: the choices, the blank and a string that
\* is no choice
GradeInputs == {GRADE_POINT_MAPPING[i][1] : i \in 1..Len(GRADE_POINT_MAPPING)} \cup {"", "E"}

InitGrade ==
    /\ quiz \in {q \in SavedQuizzes : ~q.random_order /\ ~q.exam_paper}
    /\ sittings = {}
    /\ nextId = 1
    /\ progress = [u \in Users |-> <<>>]
    /\ clock = 0
    /\ toggles = 0
    /\ completedBy = {}
    /\ last = NoLast
    /\ reqs = [w \in Workers |-> NoRequest]
    /\ started = 0
    /\ probe = NoProbe
    /\ recorded = NoRecorded
    /\ taken = {}
    /\ semesters = {}
    /\ level = [s \in Students |-> "L1"]
    /\ NoQuizSaved
    /\ \/ \E total \in (-Scale)..(MaxTotal * Scale) :
            graded = [NoGraded EXCEPT !.op = "new",
                         !.before = <<[NewTaken("s1", "c1") EXCEPT !.total = total]>>]
       \/ \E grade \in GradeInputs, c \in CourseRows :
            graded = [NoGraded EXCEPT !.op = "new",
                         !.before = <<[NewTaken("s1", c.id) EXCEPT !.grade = grade]>>]

GradeFrame ==
    <<quiz, sittings, nextId, progress, clock, toggles, completedBy, last, reqs, started,
      probe, recorded, taken, semesters, level, QuizVars>>

\* instance.get_grade()
GetGrade ==
    /\ graded.op = "new"
    /\ graded' = [graded EXCEPT !.op = "get_grade", !.ret = <<get_grade(graded.before[1])>>]
    /\ UNCHANGED GradeFrame

\* instance.get_point()
GetPoint ==
    /\ graded.op = "new"
    /\ graded' = [graded EXCEPT !.op = "get_point", !.ret = <<get_point(graded.before[1])>>]
    /\ UNCHANGED GradeFrame

NextGrade == GetGrade \/ GetPoint

SpecGrade == InitGrade /\ [][NextGrade]_vars

(***************************************************************************)
(* SpecTaken: rows of TakenCourse are saved and saved again, and the GPA   *)
(* and CGPA of an instance are computed from the table                     *)
(***************************************************************************)
\* most rows of TakenCourse
MaxTaken == 2

\* the five raw marks of an instance, in hundredths: assignment, mid_exam,
\* quiz, attendance, final_exam
MarkInputs ==
    { <<2000, 1500, 1000, 500, 3500>>,
      <<1000, 1000, 1000, 500, 1000>>,
      <<1000, 1000, 1000, 499, 1000>>,
      <<-100, 0, 0, 0, 0>> }

\* values the derived fields of an instance hold before it is saved
DerivedInputs ==
    { [total |-> 0, grade |-> "", point |-> 0, comment |-> ""],
      [total |-> 9900, grade |-> "A+", point |-> 2800, comment |-> "PASS"] }

\* the students and the courses of the rows
Enrolments == (({"s1"} \X {c.id : c \in CourseRows}) \cup {<<"s2", "c1">>})

\* Semester rows: at most one is meant to be current, the table does not
\* enforce it
SemesterInputs ==
    { { [id |-> 1, semester |-> "First", is_current_semester |-> a],
        [id |-> 2, semester |-> "Second", is_current_semester |-> b] } :
      a \in BOOLEAN, b \in BOOLEAN }

WithMarks(tc, marks, derived) ==
    [tc EXCEPT !.assignment = marks[1], !.mid_exam = marks[2], !.quiz = marks[3],
               !.attendance = marks[4], !.final_exam = marks[5],
               !.total = derived.total, !.grade = derived.grade,
               !.point = derived.point, !.comment = derived.comment]

RECURSIVE SumPoint(_)
\* sum(tc.point for tc in taken_courses)
SumPoint(rows) ==
    IF rows = {} THEN 0
    ELSE LET r == CHOOSE x \in rows : TRUE IN r.point + SumPoint(rows \ {r})

RECURSIVE SumCredit(_)
\* sum(tc.course.credit for tc in taken_courses)
SumCredit(rows) ==
    IF rows = {} THEN 0
    ELSE LET r == CHOOSE x \in rows : TRUE
         IN  CourseById(r.course).credit + SumCredit(rows \ {r})

\* the value a raised ZeroDivisionError is recorded as
DivisionError == -1

\* round(total_points / Decimal(total_credits), 2), or Decimal("0.00")
Aggregate(rows) ==
    IF SumCredit(rows) > 0 THEN RoundHalfEven(SumPoint(rows), SumCredit(rows)) ELSE 0

\* mutant of calculate_gpa: the division is not guarded
calculate_gpa_unguarded(tc, rows, sems, lvl) ==
    LET current == {x \in sems : x.is_current_semester}
    IN  IF current = {} THEN 0
        ELSE LET current_semester == First(current)
                 taken_courses ==
                     {x \in rows : /\ x.student = tc.student
                                   /\ CourseById(x.course).level = lvl[tc.student]
                                   /\ CourseById(x.course).semester = current_semester.semester}
             IN  IF SumCredit(taken_courses) = 0 THEN DivisionError
                 ELSE Aggregate(taken_courses)

\* TakenCourse.calculate_gpa
calculate_gpa(tc, rows, sems, lvl) ==
    LET current == {x \in sems : x.is_current_semester}
    IN  IF current = {} THEN 0
        ELSE LET current_semester == First(current)
                 taken_courses ==
                     {x \in rows : /\ x.student = tc.student
                                   /\ CourseById(x.course).level = lvl[tc.student]
                                   /\ CourseById(x.course).semester = current_semester.semester}
             IN  Aggregate(taken_courses)

\* mutant of calculate_cgpa: the rows of every student count
calculate_cgpa_everyone(tc, rows) == Aggregate(rows)

\* TakenCourse.calculate_cgpa
calculate_cgpa(tc, rows) ==
    Aggregate({x \in rows : x.student = tc.student})

InitTaken ==
    /\ quiz \in {q \in SavedQuizzes : ~q.random_order /\ ~q.exam_paper}
    /\ sittings = {}
    /\ nextId = 1
    /\ progress = [u \in Users |-> <<>>]
    /\ clock = 0
    /\ toggles = 0
    /\ completedBy = {}
    /\ last = NoLast
    /\ reqs = [w \in Workers |-> NoRequest]
    /\ started = 0
    /\ probe = NoProbe
    /\ recorded = NoRecorded
    /\ taken = {}
    /\ semesters \in SemesterInputs
    /\ level \in {[s \in Students |-> IF s = "s1" THEN l ELSE "L1"] : l \in Levels}
    /\ graded = NoGraded
    /\ NoQuizSaved

TakenFrame ==
    <<quiz, sittings, nextId, progress, clock, toggles, completedBy, last, reqs, started,
      probe, recorded, semesters, level, QuizVars>>

\* TakenCourse(student=..., course=..., marks).save()
CreateTaken ==
    /\ Cardinality(taken) < MaxTaken
    /\ \E e \in Enrolments, marks \in MarkInputs, derived \in DerivedInputs :
         LET instance == WithMarks(NewTaken(e[1], e[2]), marks, derived)
             row == [TakenCourse_save(instance) EXCEPT !.id = Cardinality(taken) + 1]
         IN  /\ taken' = taken \cup {row}
             /\ graded' = [op |-> "save", id |-> row.id, before |-> <<instance>>,
                           ret |-> <<row>>]
    /\ UNCHANGED TakenFrame

\* a row is loaded, its fields are assigned and it is saved
UpdateTaken ==
    /\ \E old \in taken, marks \in MarkInputs :
       \E derived \in {old} \cup DerivedInputs :
         LET instance == WithMarks(old, marks, derived)
             row == TakenCourse_save(instance)
         IN  /\ taken' = (taken \ {old}) \cup {row}
             /\ graded' = [op |-> "save", id |-> row.id, before |-> <<instance>>,
                           ret |-> <<row>>]
    /\ UNCHANGED TakenFrame

\* the instances GPA and CGPA are asked of: a row, or one that is not saved
Instances == taken \cup {NewTaken(s, "c1") : s \in Students}

\* instance.calculate_gpa()
CalculateGpa ==
    /\ \E tc \in Instances :
         graded' = [op |-> "gpa", id |-> tc.id, before |-> <<tc>>,
                    ret |-> <<calculate_gpa(tc, taken, semesters, level)>>]
    /\ UNCHANGED <<taken, TakenFrame>>

\* instance.calculate_cgpa()
CalculateCgpa ==
    /\ \E tc \in Instances :
         graded' = [op |-> "cgpa", id |-> tc.id, before |-> <<tc>>,
                    ret |-> <<calculate_cgpa(tc, taken)>>]
    /\ UNCHANGED <<taken, TakenFrame>>

NextTaken == CreateTaken \/ UpdateTaken \/ CalculateGpa \/ CalculateCgpa

SpecTaken == InitTaken /\ [][NextTaken]_vars

(***************************************************************************)
(* SpecQuiz: quizzes are created and edited through Quiz.save while a      *)
(* student takes the quiz                                                  *)
(***************************************************************************)
\* pass marks a Quiz instance may hold when it is saved
FormPassMarks == {-1, 0, 100, 101}

\* the instances that are saved: the quiz being taken with any flags, and
\* another quiz
QuizForms ==
    [ id : {TheQuiz}, random_order : {FALSE}, exam_paper : BOOLEAN,
      single_attempt : BOOLEAN, pass_mark : FormPassMarks, questions : {QuestionSet} ]
    \cup
    [ id : {"q2"}, random_order : {FALSE}, exam_paper : {FALSE},
      single_attempt : {TRUE}, pass_mark : FormPassMarks, questions : {QuestionSet} ]

InitQuiz ==
    /\ quiz \in {q \in SavedQuizzes : ~q.random_order}
    /\ sittings = {}
    /\ nextId = 1
    /\ progress = [u \in Users |-> <<>>]
    /\ clock = 0
    /\ toggles = 0
    /\ completedBy = {}
    /\ last = NoLast
    /\ reqs = [w \in Workers |-> NoRequest]
    /\ started = 0
    /\ probe = NoProbe
    /\ recorded = NoRecorded
    /\ NoGrading
    /\ NoQuizSaved

\* instance.save() of a Quiz, from QuizCreateView or QuizUpdateView: the row
\* is written unless save raises
SaveQuiz(form) ==
    LET r == QuizSave(form)
    IN  /\ saved' = [op |-> "save", form |-> <<form>>, raised |-> r = <<>>]
        /\ quiz' = IF r # <<>> /\ form.id = quiz.id THEN r[1] ELSE quiz
        /\ quizzes' = IF r # <<>> /\ form.id # quiz.id
                      THEN {x \in quizzes : x.id # form.id} \cup {r[1]}
                      ELSE quizzes
        /\ UNCHANGED <<sittings, nextId, progress, clock, toggles, completedBy, last, reqs,
                       started, probe, recorded, GradeVars>>

NextQuiz ==
    \/ \E form \in QuizForms : SaveQuiz(form)
    \/ Get(Student)
    \/ \E guess \in Guesses : Post(Student, guess)

SpecQuiz == InitQuiz /\ [][NextQuiz]_vars

(***************************************************************************)
(* SpecCheck: MCQuestion.check_if_correct on any multiple-choice question  *)
(* and any submitted string                                                *)
(***************************************************************************)
\* longest submitted string
MaxGuessLen == 3

\* the characters of a submitted string: ids of choices, a digit of no
\* choice and a letter
GuessChars == {"1", "2", "3", "9", "a"}

RECURSIVE StringsUpTo(_)
StringsUpTo(n) ==
    IF n = 0 THEN {<<>>}
    ELSE LET shorter == StringsUpTo(n - 1)
         IN  shorter \cup {Append(g, c) : g \in shorter, c \in GuessChars}

InitCheck ==
    /\ quiz \in {q \in SavedQuizzes : ~q.random_order /\ ~q.exam_paper}
    /\ sittings = {}
    /\ nextId = 1
    /\ progress = [u \in Users |-> <<>>]
    /\ clock = 0
    /\ toggles = 0
    /\ completedBy = {}
    /\ \E question \in {q \in Questions : q.kind = "MCQuestion"},
          guess \in StringsUpTo(MaxGuessLen) :
         last = [NoLast EXCEPT !.op = "guess", !.qid = question.id, !.before = <<guess>>]
    /\ reqs = [w \in Workers |-> NoRequest]
    /\ started = 0
    /\ probe = NoProbe
    /\ recorded = NoRecorded
    /\ NoGrading
    /\ NoQuizSaved

\* question.check_if_correct(guess)
CheckIfCorrect ==
    /\ last.op = "guess"
    /\ last' = [last EXCEPT
                   !.op = "check_if_correct",
                   !.ret = IF MCQuestion_check_if_correct(QuestionById(last.qid),
                                                          last.before[1])
                           THEN "True" ELSE "False"]
    /\ UNCHANGED <<quiz, sittings, nextId, progress, clock, toggles, completedBy, reqs,
                   started, probe, recorded, GradeVars, QuizVars>>

SpecCheck == InitCheck /\ [][CheckIfCorrect]_vars

(***************************************************************************)
(* SpecExams: Progress.show_exams on tables of Sittings of two students,   *)
(* finished and not, asked by the students and by the superuser            *)
(***************************************************************************)
\* most rows of the Sitting table
MaxExams == 3

\* the owners of the sittings, and the users whose Progress is asked
Examinees == {"stu", "stu2"}
ExamViewers == Examinees \cup {"adm"}

\* the times the sittings may have ended at
EndTimes == {MaxExams + 1, MaxExams + 2}

\* the row of a sitting whose questions were all answered and that was
\* finalized at `end`
FinishedSitting(pk, user, q, start, end) ==
    LET s0 == new_sitting(pk, user, q, TheCourse, q.questions, start)
        s1 == form_valid_user(s0, <<>>, get_first_question(s0), <<"1">>).sitting
        s2 == form_valid_user(s1, <<>>, get_first_question(s1), <<"1">>).sitting
    IN  mark_quiz_complete(s2, end)

\* the rows a table may hold under primary key pk
ExamRows(pk, q) ==
    { new_sitting(pk, u, q, TheCourse, q.questions, pk) : u \in Examinees }
    \cup { FinishedSitting(pk, u, q, pk, end) : u \in Examinees, end \in EndTimes }

\* the tables: one row per primary key, at most one unfinished sitting a user
ExamTables(q) ==
    UNION { { {t[i] : i \in 1..n} :
                t \in { f \in [1..n -> UNION {ExamRows(pk, q) : pk \in 1..n}] :
                          /\ \A i \in 1..n : f[i].id = i
                          /\ \A i, j \in 1..n :
                                (i # j /\ ~f[i].complete /\ ~f[j].complete)
                                    => f[i].user # f[j].user } } :
            n \in 0..MaxExams }

\* the orders a queryset may return a set of rows in under order_by("-end"):
\* rows with equal end come in any order
OrderByEndDescending(rows) ==
    { p \in [1..Cardinality(rows) -> rows] :
        /\ \A i, j \in 1..Cardinality(rows) : i # j => p[i] # p[j]
        /\ \A i, j \in 1..Cardinality(rows) : i < j => p[i].end[1] >= p[j].end[1] }

\* mutant of show_exams: every user is shown the sittings of all users
show_exams_of_all(rows, user) ==
    OrderByEndDescending({x \in rows : x.complete})

\* Progress.show_exams
show_exams(rows, user) ==
    IF is_superuser(user)
    THEN OrderByEndDescending({x \in rows : x.complete})
    ELSE OrderByEndDescending({x \in rows : x.user = user /\ x.complete})

InitExams ==
    /\ quiz \in {q \in SavedQuizzes : q.exam_paper /\ ~q.single_attempt /\ ~q.random_order}
    /\ sittings \in ExamTables(quiz)
    /\ nextId = Cardinality(sittings) + 1
    /\ progress = [u \in Users |-> <<>>]
    /\ clock = MaxExams + 2
    /\ toggles = 0
    /\ completedBy = {}
    /\ last = NoLast
    /\ reqs = [w \in Workers |-> NoRequest]
    /\ started = 0
    /\ probe = NoProbe
    /\ recorded = NoRecorded
    /\ NoGrading
    /\ NoQuizSaved

\* progress.show_exams() of the user's Progress, as the progress page calls it
ShowExams(u) ==
    /\ \E exams \in show_exams(sittings, u) :
         last' = [NoLast EXCEPT !.op = "show_exams", !.user = u, !.after = <<exams>>]
    /\ UNCHANGED <<quiz, sittings, nextId, progress, clock, toggles, completedBy, reqs,
                   started, probe, recorded, GradeVars, QuizVars>>

NextExams == \E u \in ExamViewers : ShowExams(u)

SpecExams == InitExams /\ [][NextExams]_vars

(***************************************************************************)
(* SpecLive: quizzes of one and of two questions are taken, and a user     *)
(* who can submit an answer does so in the end                             *)
(***************************************************************************)
\* the question sets of the quizzes
LiveQuestionSets == {<<1>>, QuestionSet}

InitLive ==
    /\ quiz \in {[q EXCEPT !.questions = qs] :
                    q \in {x \in SavedQuizzes : ~x.random_order}, qs \in LiveQuestionSets}
    /\ sittings = {}
    /\ nextId = 1
    /\ progress = [u \in Users |-> <<>>]
    /\ clock = 0
    /\ toggles = 0
    /\ completedBy = {}
    /\ last = NoLast
    /\ reqs = [w \in Workers |-> NoRequest]
    /\ started = 0
    /\ probe = NoProbe
    /\ recorded = NoRecorded
    /\ NoGrading
    /\ NoQuizSaved

\* user u submits an answer
Submit(u) == \E guess \in Guesses : Post(u, guess)

\* the users who take the quiz: a student and the superuser
LiveUsers == {"stu", "adm"}

NextLive ==
    \/ \E u \in LiveUsers : Get(u)
    \/ \E u \in LiveUsers : Submit(u)

SpecLive == InitLive /\ [][NextLive]_vars /\ \A u \in LiveUsers : WF_vars(Submit(u))

(***************************************************************************)
(* SpecReview: a student takes the quiz, and the marking view toggles      *)
(* questions of a Sitting's own order once the Sitting is complete         *)
(***************************************************************************)
\* POST of the marking view on a complete Sitting, for one of its questions
ReviewPost(pk, qid) ==
    /\ HasRow(sittings, pk)
    /\ RowById(sittings, pk).complete
    /\ InList(qid, _question_ids(RowById(sittings, pk)))
    /\ MarkingPost(pk, qid)

NextReview ==
    /\ \/ Get(Student)
       \/ \E guess \in Guesses : Post(Student, guess)
       \/ \E pk \in 1..MaxSittings, q \in Questions : ReviewPost(pk, q.id)
    /\ nextId' <= MaxSittings + 1

SpecReview == Init /\ [][NextReview]_vars

(***************************************************************************)
(* Properties                                                              *)
(***************************************************************************)
Abs(x) == IF x < 0 THEN -x ELSE x

Answered(s) == Len(s.user_answers)
Remaining(s) == Len(ParseIds(s.question_list))
Total(s) == Len(ParseIds(s.question_order))

\* C1: for every persisted Sitting, the number of remaining questions plus
\* the number of answers recorded in user_answers equals the number of
\* questions of question_order.
C1_AnsweredPlusRemaining ==
    \A s \in sittings : Remaining(s) + Answered(s) = Total(s)

\* a Sitting with one question answered and one still to answer
C1_Witness ==
    \E s \in sittings : Answered(s) = 1 /\ Remaining(s) = 1 /\ last.op = "post"

\* C3: with requests served one at a time, no (user, quiz, course) triple
\* has more than one non-complete Sitting.
C3_AtMostOneActive ==
    \A u \in Users : Cardinality(Filter(sittings, u, quiz, TheCourse, FALSE)) <= 1

\* a user with a finished Sitting on record and a second attempt under way
C3_Witness ==
    \E u \in Users :
        /\ Cardinality(Filter(sittings, u, quiz, TheCourse, FALSE)) = 1
        /\ Filter(sittings, u, quiz, TheCourse, TRUE) # {}

Privileged(u) == is_superuser(u) \/ is_lecturer(u)

\* the last request ran user_sitting for a user who had finished a Sitting of
\* this single-attempt quiz before
C4_Case ==
    /\ quiz.single_attempt
    /\ last.op \in {"get", "post"}
    /\ last.hadCompleted

C5_Case == last.op = "mark" /\ last.n = 2 /\ HasRow(sittings, last.sid)

\* the question id is listed at most once
AtMostOnce(qid, ids) == Cardinality({i \in 1..Len(ids) : ids[i] = qid}) <= 1

\* the score and the set of incorrect questions are what they were before the
\* two toggles
C5_Restored ==
    /\ RowById(sittings, last.sid).current_score = last.before[1].current_score
    /\ Range(get_incorrect_questions(RowById(sittings, last.sid)))
         = Range(last.before[1].incorrect)

Evaluated == probe.percent # <<>>

\* C6: get_percent_correct is within 0..100, is 0 for an empty
\* question_order, and for a score within 0..len(question_order) is the
\* integer nearest to 100 * score / len(question_order): the denominator is
\* the original question count, not what is left of question_list.
C6_PercentRange ==
    Evaluated =>
        LET s == probe.sitting[1]
            pc == probe.percent[1]
        IN  /\ 0 <= pc /\ pc <= 100
            /\ Total(s) = 0 => pc = 0
            /\ (Total(s) > 0 /\ 0 <= s.current_score /\ s.current_score <= Total(s)) =>
                    2 * Abs(pc * Total(s) - 100 * s.current_score) <= Total(s)
            /\ s.current_score < 0 => pc = 0
            /\ (Total(s) > 0 /\ s.current_score > Total(s)) => pc = 100

\* 2 of 4 correct with one question still to answer reads 50
C6_Witness ==
    /\ Evaluated
    /\ Total(probe.sitting[1]) = 4
    /\ Remaining(probe.sitting[1]) = 1
    /\ probe.sitting[1].current_score = 2
    /\ probe.percent[1] = 50

\* a Sitting with every question answered, k of them correctly and the
\* others flagged incorrect
C7_Case ==
    /\ Evaluated
    /\ Total(probe.sitting[1]) > 0
    /\ Remaining(probe.sitting[1]) = 0
    /\ probe.sitting[1].current_score >= 0
    /\ probe.sitting[1].current_score
         + Len(ParseIds(probe.sitting[1].incorrect_questions)) = Total(probe.sitting[1])

ActiveRows == Filter(sittings, Student, quiz, TheCourse, FALSE)

\* both workers hold a sitting that user_sitting returned after finding no
\* sitting of the student at all
C2_Case ==
    \A w \in Workers : reqs[w].pc = "loaded" /\ reqs[w].noPrior

\* C2: when two simultaneous user_sitting calls for the same user, quiz and
\* course, made while no Sitting existed, have both returned, exactly one
\* non-complete Sitting is persisted, however their lookups and creates
\* interleaved.
C2_ExactlyOne == C2_Case => Cardinality(ActiveRows) = 1

\* C8: no step of any answer, finalize or marking request, each saving its own
\* loaded copy, turns a persisted complete Sitting into a non-complete one.
C8_CompleteStays ==
    [][\A s \in sittings : s.complete =>
          \A s2 \in sittings' : s2.id = s.id => s2.complete]_vars

\* worker w finalizes in this step a sitting whose persisted row is complete
FinalizesComplete(w) ==
    /\ reqs[w].pc = "complete"
    /\ reqs'[w].pc # "complete"
    /\ HasRow(sittings, reqs[w].sitting[1].id)
    /\ RowById(sittings, reqs[w].sitting[1].id).complete

\* C9: finalizing a Sitting that is already persisted as complete changes none
\* of its fields, the end timestamp included.
C9_FinalizeNoOp ==
    [][\A w \in Workers : FinalizesComplete(w) =>
          RowById(sittings', reqs[w].sitting[1].id)
              = RowById(sittings, reqs[w].sitting[1].id)]_vars

\* the last step was a call of user_sitting for user u
CalledFor(u) == last'.op = "user_sitting" /\ last'.user = u

\* C11: user_sitting for a quiz with no questions fails with the empty-quiz
\* error (ImproperlyConfigured) and leaves the Sitting table as it was.
C11_EmptyQuizFails ==
    [][\A u \in Users : (CalledFor(u) /\ Len(quiz.questions) = 0) =>
          (last'.ret = "ImproperlyConfigured" /\ sittings' = sittings /\ nextId' = nextId)]_vars

C11_Witness ==
    /\ last.op = "user_sitting"
    /\ Len(quiz.questions) = 0
    /\ last.ret = "ImproperlyConfigured"
    /\ sittings = {}

\* x holds every element of list y exactly once and nothing else
SameOnce(x, y) ==
    /\ Len(x) = Len(y)
    /\ \A i \in 1..Len(y) : Cardinality({j \in 1..Len(x) : x[j] = y[i]}) = 1

\* user_sitting has just created the sitting last.sid
C12_Case == last.op = "user_sitting" /\ last.created

\* C12: a Sitting created by user_sitting has question_order equal to
\* question_list, both holding every question id of the quiz exactly once,
\* current_score 0, no incorrect question, no user answer and complete false.
C12_FreshSitting ==
    C12_Case =>
        LET s == RowById(sittings, last.sid)
        IN  /\ s.question_order = s.question_list
            /\ SameOnce(ParseIds(s.question_order), quiz.questions)
            /\ s.current_score = 0
            /\ s.incorrect_questions = <<>>
            /\ s.user_answers = <<>>
            /\ s.complete = FALSE

C12_Witness ==
    /\ C12_Case
    /\ quiz.random_order
    /\ ParseIds(RowById(sittings, last.sid).question_order) # quiz.questions
    /\ Len(quiz.questions) = 2

RecoversDuplicate(w) ==
    /\ reqs[w].pc = "first"
    /\ reqs'[w].pc # "first"
    /\ ActiveRows # {}

\* C14 as stated: the Sitting returned when several non-complete Sittings
\* exist is the one with the earliest start, and none is created.
C14_EarliestStart ==
    [][\A w \in Workers : RecoversDuplicate(w) =>
          /\ reqs'[w].sitting[1] \in ActiveRows
          /\ \A x \in ActiveRows : reqs'[w].sitting[1].start <= x.start
          /\ sittings' = sittings
          /\ nextId' = nextId]_vars

\* C14: the Sitting returned after the lookup met several non-complete
\* Sittings is the non-complete Sitting with the lowest primary key, the same
\* on every call that finds the same Sittings, and none is created.
C14_LowestKey ==
    [][\A w \in Workers : RecoversDuplicate(w) =>
          /\ reqs'[w].sitting[1] \in ActiveRows
          /\ \A x \in ActiveRows : reqs'[w].sitting[1].id <= x.id
          /\ sittings' = sittings
          /\ nextId' = nextId]_vars

\* a worker holds the sitting picked among two non-complete ones, and it is
\* not the one that started first
C14_Witness ==
    \E w \in Workers :
        /\ reqs[w].dup
        /\ reqs[w].pc = "loaded"
        /\ Cardinality(ActiveRows) = 2
        /\ reqs[w].sitting[1] \in ActiveRows
        /\ \E x \in ActiveRows : x.start < reqs[w].sitting[1].start

\* the (correct, possible) pair the packed score holds under a key, (0, 0)
\* when it holds none
LedgerEntry(score, key) ==
    IF \E i \in 1..Len(score) : score[i][1] = key
    THEN LET k == CHOOSE i \in 1..Len(score) : score[i][1] = key
         IN  <<score[k][2], score[k][3]>>
    ELSE <<0, 0>>

\* the last request answered the head question of its sitting
C15_Case == last.op = "post" /\ last.ret = "sitting"

Scored(s) == s.current_score + Len(get_incorrect_questions(s))

RECURSIVE SumScored(_)
SumScored(rows) ==
    IF rows = {} THEN 0
    ELSE LET x == CHOOSE y \in rows : TRUE
         IN  Scored(x) + SumScored(rows \ {x})

\* the 'possible' points of the student's ledger
LedgerPossible ==
    IF progress[Student] = <<>> THEN 0
    ELSE LedgerEntry(progress[Student][1], QuizKey(NoQuestion))[2]

\* C16: as long as the marking view has not been used, every question id of
\* a Sitting counts at most once in its current_score and incorrect_questions
\* and gives at most one possible point to the ledger, however the answer
\* requests interleave.
C16_ScoredOnce ==
    toggles = 0 =>
        /\ \A s \in sittings :
              /\ \A qid \in Range(get_incorrect_questions(s)) :
                    AtMostOnce(qid, get_incorrect_questions(s))
              /\ Scored(s) <= Len(_question_ids(s))
        /\ LedgerPossible <= (nextId - 1) * Len(quiz.questions)

\* C17: for an exam paper taken by the student, without marking, every
\* persisted state has as many possible points in the ledger as answers
\* counted in the Sittings: neither write is ever persisted without the other.
C17_AtomicRecord ==
    (toggles = 0 /\ quiz.exam_paper) => LedgerPossible = SumScored(sittings)

\* the packed score of the student's Progress row
Ledger == progress[Student][1]

RecordedUnderKey ==
    << recorded.sums[TheQuiz][1] + recorded.sums["q2"][1],
       recorded.sums[TheQuiz][2] + recorded.sums["q2"][2] >>

RecordedCalls == recorded.calls[TheQuiz] + recorded.calls["q2"]

Records(z) ==
    /\ last'.op = "record"
    /\ last'.after[1].quiz = z
    /\ last'.after[1].saved
    /\ recorded'.calls[z] = recorded.calls[z] + 1

\* C19: a call of update_score for one quiz leaves the ledger entry of every
\* other quiz that has one as it was.
C19_OthersUnchanged ==
    [][\A z, other \in LedgerQuizzes :
          (Records(z) /\ other # z /\ recorded.calls[other] > 0) =>
              LedgerEntry(progress'[Student][1], QuizKey(QuestionOf(other)))
                  = LedgerEntry(Ledger, QuizKey(QuestionOf(other)))]_vars

\* the last call of update_score had an argument that is not an integer
C20_Case ==
    /\ last.op = "record"
    /\ ~isinstance_int(last.after[1].score_to_add)
         \/ ~isinstance_int(last.after[1].possible_to_add)

\* C20: update_score called with a score delta or a possible delta that is
\* not an integer returns an error value, leaves the score of the ledger as it
\* was and saves nothing.
C20_InvalidRejected ==
    C20_Case =>
        /\ last.ret = "Error"
        /\ Ledger = last.before[1]
        /\ ~last.after[1].saved

C20_Witness ==
    /\ C20_Case
    /\ last.ret = "Error"
    /\ Ledger # <<>>
    /\ isinstance_int(last.after[1].score_to_add)

\* the boundary table as the grading rule states it, in hundredths
StatedBoundaries ==
    << <<9000, "A+">>, <<8500, "A">>, <<8000, "A-">>, <<7500, "B+">>, <<7000, "B">>,
       <<6500, "B-">>, <<6000, "C+">>, <<5500, "C">>, <<5000, "C-">>, <<4500, "D">> >>

\* grades from worst to best
GradeOrder == <<"NG", "F", "D", "C-", "C", "C+", "B-", "B", "B+", "A-", "A", "A+">>

Rank(g) == CHOOSE i \in 1..Len(GradeOrder) : GradeOrder[i] = g

\* g is the grade of the highest stated boundary that total reaches, F or NG
\* when it reaches none
HighestBoundaryMet(total, g) ==
    IF \E i \in 1..Len(StatedBoundaries) : total >= StatedBoundaries[i][1]
    THEN \E i \in 1..Len(StatedBoundaries) :
            /\ total >= StatedBoundaries[i][1]
            /\ g = StatedBoundaries[i][2]
            /\ \A j \in 1..Len(StatedBoundaries) :
                  total >= StatedBoundaries[j][1] => StatedBoundaries[j][1] <= StatedBoundaries[i][1]
    ELSE g \in {"F", "NG"}

C21_Case == graded.op = "get_grade"

\* C21: get_grade returns the grade of the highest boundary of the table
\* (90 A+, 85 A, 80 A-, 75 B+, 70 B, 65 B-, 60 C+, 55 C, 50 C-, 45 D, else F or
\* NG) that the total meets or exceeds: 89 gives A, 90 gives A+, 44 gives F,
\* and a higher total never has a worse grade.
C21_GradeFor ==
    C21_Case =>
        LET tc == graded.before[1]
            g == graded.ret[1]
        IN  /\ HighestBoundaryMet(tc.total, g)
            /\ tc.total = 8900 => g = "A"
            /\ tc.total = 9000 => g = "A+"
            /\ tc.total = 4400 => g = "F"
            /\ Rank(get_grade([tc EXCEPT !.total = tc.total + 1])) >= Rank(g)

C21_Witness ==
    /\ C21_Case
    /\ graded.before[1].total = 8999
    /\ graded.ret[1] = "A"

\* the grade points as the grading rule states them, in hundredths
StatedPoints ==
    << <<"A+", 400>>, <<"A", 400>>, <<"A-", 375>>, <<"B+", 350>>, <<"B", 300>>,
       <<"B-", 275>>, <<"C+", 250>>, <<"C", 200>>, <<"C-", 175>>, <<"D", 100>>,
       <<"F", 0>>, <<"NG", 0>> >>

PointEntry(g) ==
    IF \E i \in 1..Len(StatedPoints) : StatedPoints[i][1] = g
    THEN StatedPoints[CHOOSE i \in 1..Len(StatedPoints) : StatedPoints[i][1] = g][2]
    ELSE 0

C24_Case == graded.op = "get_point"

\* C24: get_point is the credit of the course times the grade point of the
\* grade (A+ and A 4.0, A- 3.75, B+ 3.5, B 3.0, B- 2.75, C+ 2.5, C 2.0, C- 1.75,
\* D 1.0, F and NG 0.0); for a grade that is not in the table, the empty grade
\* included, it is 0.
C24_PointFor ==
    C24_Case =>
        graded.ret[1] = CourseById(graded.before[1].course).credit
                            * PointEntry(graded.before[1].grade)

\* get_point has returned 0 for the empty grade, for a course with credit
C24_Witness ==
    /\ C24_Case
    /\ graded.before[1].grade = ""
    /\ CourseById(graded.before[1].course).credit = 7
    /\ graded.ret[1] = 0

SumOfMarks(tc) == tc.assignment + tc.mid_exam + tc.quiz + tc.attendance + tc.final_exam

SameMarks(a, b) ==
    /\ a.assignment = b.assignment
    /\ a.mid_exam = b.mid_exam
    /\ a.quiz = b.quiz
    /\ a.attendance = b.attendance
    /\ a.final_exam = b.final_exam

StatedComment(g) == IF g \in {"F", "NG"} THEN "FAIL" ELSE "PASS"

\* the derived fields of a row are those its raw marks give
Recomputed(r) ==
    /\ r.total = SumOfMarks(r)
    /\ HighestBoundaryMet(r.total, r.grade)
    /\ r.point = CourseById(r.course).credit * PointEntry(r.grade)
    /\ r.comment = StatedComment(r.grade)

C22_Case == graded.op = "save"

\* C22: after a save of a TakenCourse, whatever its total, grade, point and
\* comment held before, the row that is stored has the marks of the instance,
\* its total is the sum of the five marks, its grade the grade of that total,
\* its point the credit times the grade point of that grade and its comment
\* the comment of that grade; every row of the table stays so.
C22_DerivedRecomputed ==
    /\ C22_Case =>
          /\ graded.ret[1] \in taken
          /\ SameMarks(graded.ret[1], graded.before[1])
          /\ Recomputed(graded.ret[1])
    /\ \A r \in taken : Recomputed(r)

\* an instance that held total 99, grade A+, point 28 and comment PASS was
\* saved with marks that sum to 44.99, and is stored as a failed F
C22_Witness ==
    /\ C22_Case
    /\ graded.before[1].grade = "A+"
    /\ graded.before[1].total = 9900
    /\ graded.ret[1].total = 4499
    /\ graded.ret[1].grade = "F"
    /\ graded.ret[1].point = 0
    /\ graded.ret[1].comment = "FAIL"

\* C23: a saved TakenCourse has comment FAIL exactly when its grade is F or
\* NG, which is exactly when its total is below 45, and PASS otherwise; the
\* marks 20, 15, 10, 5 and 35 give total 85, grade A and comment PASS.
C23_CommentFor ==
    \A r \in taken :
        /\ r.comment \in {"PASS", "FAIL"}
        /\ r.comment = "FAIL" <=> r.grade \in {"F", "NG"}
        /\ r.grade \in {"F", "NG"} <=> r.total < 45 * Scale
        /\ ( /\ r.assignment = 20 * Scale
             /\ r.mid_exam = 15 * Scale
             /\ r.quiz = 10 * Scale
             /\ r.attendance = 5 * Scale
             /\ r.final_exam = 35 * Scale )
           => (r.total = 85 * Scale /\ r.grade = "A" /\ r.comment = "PASS")

\* the table holds the row of the scenario, passed with A, and a row with
\* grade NG, failed
C23_Witness ==
    /\ \E r \in taken :
          /\ r.assignment = 20 * Scale /\ r.mid_exam = 15 * Scale /\ r.quiz = 10 * Scale
          /\ r.attendance = 5 * Scale /\ r.final_exam = 35 * Scale
          /\ r.total = 85 * Scale /\ r.grade = "A" /\ r.comment = "PASS"
    /\ \E r \in taken : r.grade = "NG" /\ r.comment = "FAIL"

RECURSIVE PointsOf(_)
PointsOf(rows) ==
    IF rows = {} THEN 0
    ELSE LET r == CHOOSE x \in rows : TRUE IN r.point + PointsOf(rows \ {r})

RECURSIVE CreditsOf(_)
CreditsOf(rows) ==
    IF rows = {} THEN 0
    ELSE LET r == CHOOSE x \in rows : TRUE
         IN  CourseById(r.course).credit + CreditsOf(rows \ {r})

\* a semester is current: the one calculate_gpa takes is the first of them
HasCurrent == \E x \in semesters : x.is_current_semester

CurrentSemester ==
    (CHOOSE x \in semesters :
        /\ x.is_current_semester
        /\ \A y \in semesters : y.is_current_semester => x.id <= y.id).semester

\* the rows GPA is computed over: of the student, at the student's level, in
\* the current semester
GpaRows(student) ==
    IF HasCurrent
    THEN {r \in taken : /\ r.student = student
                        /\ CourseById(r.course).level = level[student]
                        /\ CourseById(r.course).semester = CurrentSemester}
    ELSE {}

\* the rows CGPA is computed over: all of the student
CgpaRows(student) == {r \in taken : r.student = student}

SelectedRows ==
    IF graded.op = "gpa" THEN GpaRows(graded.before[1].student)
    ELSE CgpaRows(graded.before[1].student)

C25_Case == graded.op \in {"gpa", "cgpa"} /\ CreditsOf(SelectedRows) = 0

\* C25: calculate_gpa and calculate_cgpa return exactly 0.00, and raise no
\* division error, when the credits of the selected rows sum to 0: there is
\* no such row, or every such row is of a course with credit 0.
C25_ZeroCredits == C25_Case => graded.ret[1] = 0

\* GPA was computed over rows of zero-credit courses only, and is 0.00
C25_Witness ==
    /\ C25_Case
    /\ graded.op = "gpa"
    /\ SelectedRows # {}
    /\ graded.ret[1] = 0

\* v hundredths is num / den rounded to two decimal places, a tie going to
\* the even hundredth
RoundsTo(v, num, den) ==
    /\ 2 * Abs(v * den - num) <= den
    /\ 2 * Abs(v * den - num) = den => v % 2 = 0

C26_Case == graded.op \in {"gpa", "cgpa"} /\ CreditsOf(SelectedRows) > 0

\* C26: calculate_gpa is the sum of point over the student's rows at the
\* student's level in the current semester, divided by the sum of the credits
\* of their courses and rounded to two decimal places; calculate_cgpa is the
\* same over all rows of the student, of any level and semester.
C26_Aggregation ==
    C26_Case => RoundsTo(graded.ret[1], PointsOf(SelectedRows), CreditsOf(SelectedRows))

\* GPA over a D in a one-credit course and an F in a seven-credit course:
\* 1.00 / 8 = 0.125, returned as 0.12, while another student has a row too
C26_Witness ==
    /\ C26_Case
    /\ graded.op = "gpa"
    /\ PointsOf(SelectedRows) = 100
    /\ CreditsOf(SelectedRows) = 8
    /\ graded.ret[1] = 12

\* CGPA of a student with rows outside the level or the current semester
C26_WitnessCgpa ==
    /\ C26_Case
    /\ graded.op = "cgpa"
    /\ SelectedRows # GpaRows(graded.before[1].student)
    /\ graded.ret[1] > 0

\* the rows of the Quiz table
PersistedQuizzes == {quiz} \cup quizzes

InRange(pass_mark) == 0 <= pass_mark /\ pass_mark <= 100

\* every stored quiz has its pass mark within 0..100, and the last save
\* raised exactly when the pass mark of its instance was outside
C27_Stored ==
    /\ \A q \in PersistedQuizzes : InRange(q.pass_mark)
    /\ saved.op = "save" => (saved.raised <=> ~InRange(saved.form[1].pass_mark))
    /\ saved.op = "save" /\ ~saved.raised =>
          \E q \in PersistedQuizzes :
              q.id = saved.form[1].id /\ q.pass_mark = saved.form[1].pass_mark

\* C27: a save of a Quiz whose pass_mark is below 0 or above 100 raises a
\* validation error and leaves the Quiz table as it was; every stored Quiz has
\* its pass_mark within 0..100.
C27_PassMarkEnforced ==
    /\ []C27_Stored
    /\ [][saved'.raised => (quiz' = quiz /\ quizzes' = quizzes)]_vars

\* the quiz being taken, stored with pass mark 100, was saved with pass mark
\* 101: the save raised and the stored row still has 100
C27_Witness ==
    /\ saved.op = "save"
    /\ saved.raised
    /\ saved.form[1].id = quiz.id
    /\ saved.form[1].pass_mark = 101
    /\ quiz.pass_mark = 100

\* C28: every Quiz stored by save() with single_attempt set has exam_paper
\* set, so the quiz of a complete Sitting, if it is single-attempt, is an exam
\* paper.
C28_SingleAttemptIsExam ==
    /\ \A q \in PersistedQuizzes : q.single_attempt => q.exam_paper
    /\ saved.op = "save" /\ ~saved.raised /\ saved.form[1].single_attempt =>
          \E q \in PersistedQuizzes : q.id = saved.form[1].id /\ q.exam_paper
    /\ \A s \in sittings :
          s.complete /\ s.quiz = quiz.id /\ quiz.single_attempt => quiz.exam_paper

\* the quiz of a complete Sitting was saved with single_attempt set and
\* exam_paper clear, and is stored as an exam paper
C28_Witness ==
    /\ saved.op = "save"
    /\ ~saved.raised
    /\ saved.form[1].id = quiz.id
    /\ saved.form[1].single_attempt
    /\ ~saved.form[1].exam_paper
    /\ quiz.single_attempt
    /\ quiz.exam_paper
    /\ \E s \in sittings : s.complete /\ s.quiz = quiz.id

C29_Case == last.op = "check_if_correct"

\* the submitted string is the decimal numeral of the id of a choice of the
\* question that is flagged correct
OwnCorrectChoice(qid, guess) ==
    \E c \in Choices :
        /\ IntToStr(c.id) = guess
        /\ c.question = qid
        /\ c.correct

\* C29: check_if_correct of a multiple-choice question is true exactly when
\* the submitted choice identity is one of the question's own choices flagged
\* correct; an identity that does not parse, that no choice has, or that is a
\* choice of another question gives false.
C29_OwnCorrectOnly ==
    C29_Case => (last.ret = "True" <=> OwnCorrectChoice(last.qid, last.before[1]))

\* what the code does: true exactly when the identity is that of a choice
\* flagged correct, of whichever question
C29_AnyCorrectChoice ==
    C29_Case =>
        (last.ret = "True" <=>
            \E c \in Choices : IntToStr(c.id) = last.before[1] /\ c.correct)

\* question 1 was asked about choice 3, the correct choice of question 3
C29_Witness ==
    /\ C29_Case
    /\ last.qid = 1
    /\ last.before[1] = <<"3">>
    /\ last.ret = "True"

\* a step of the marking view: the Sitting it found, the Sitting it left and
\* the question it toggled
MarkingStep == toggles' = toggles + 1

FoundSitting == RowById(sittings, last'.sid)

LeftSitting == RowById(sittings', last'.sid)

\* the fields the toggle has no business with
C30_OthersUnchanged ==
    /\ LeftSitting.question_list = FoundSitting.question_list
    /\ LeftSitting.question_order = FoundSitting.question_order
    /\ LeftSitting.user_answers = FoundSitting.user_answers
    /\ LeftSitting.complete = FoundSitting.complete

\* ids is listed with one occurrence of qid, the first, taken out
WithoutFirst(ids, qid, listed) ==
    \E k \in 1..Len(listed) :
        /\ listed[k] = qid
        /\ \A j \in 1..(k - 1) : listed[j] # qid
        /\ ids = SubSeq(listed, 1, k - 1) \o SubSeq(listed, k + 1, Len(listed))

\* C30: a marking toggle of a question whose id is among incorrect_questions
\* removes the id, so that the question is no longer listed, and adds 1 to
\* current_score; otherwise it appends the id and subtracts 1 from
\* current_score if the Sitting is complete, leaving the score as it is if
\* not; question_list, question_order, user_answers and complete stay as they
\* are.
C30_ToggleEffects ==
    [][MarkingStep =>
         LET listed == get_incorrect_questions(FoundSitting)
             ids == get_incorrect_questions(LeftSitting)
             qid == last'.qid
         IN  /\ IF InList(qid, listed)
                THEN /\ WithoutFirst(ids, qid, listed)
                     /\ ~InList(qid, ids)
                     /\ LeftSitting.current_score = FoundSitting.current_score + 1
                ELSE /\ ids = Append(listed, qid)
                     /\ LeftSitting.current_score =
                          FoundSitting.current_score - (IF FoundSitting.complete THEN 1 ELSE 0)
             /\ C30_OthersUnchanged]_vars

\* what the toggle does: as above, but of an id listed more than once only
\* the first occurrence goes, and the question stays listed
C30_FirstOccurrence ==
    [][MarkingStep =>
         LET listed == get_incorrect_questions(FoundSitting)
             ids == get_incorrect_questions(LeftSitting)
             qid == last'.qid
         IN  /\ IF InList(qid, listed)
                THEN /\ WithoutFirst(ids, qid, listed)
                     /\ LeftSitting.current_score = FoundSitting.current_score + 1
                ELSE /\ ids = Append(listed, qid)
                     /\ LeftSitting.current_score =
                          FoundSitting.current_score - (IF FoundSitting.complete THEN 1 ELSE 0)
             /\ C30_OthersUnchanged]_vars

C31_Case == last.op = "show_exams"

\* the sittings show_exams has returned
Exams == last.after[1]

\* C31: show_exams returns complete sittings only, each once, in the order of
\* their end times, latest first; for a user who is not superuser they are
\* exactly that user's complete sittings, so none of another user, and for the
\* superuser they are the complete sittings of all users.
C31_ExamsFor ==
    C31_Case =>
        /\ \A i \in 1..Len(Exams) : Exams[i] \in sittings /\ Exams[i].complete
        /\ \A i, j \in 1..Len(Exams) : i # j => Exams[i].id # Exams[j].id
        /\ \A i \in 1..(Len(Exams) - 1) : Exams[i].end[1] >= Exams[i + 1].end[1]
        /\ IF last.user = "adm"
           THEN \A x \in sittings : x.complete => \E i \in 1..Len(Exams) : Exams[i] = x
           ELSE /\ \A i \in 1..Len(Exams) : Exams[i].user = last.user
                /\ \A x \in sittings :
                      (x.complete /\ x.user = last.user) => \E i \in 1..Len(Exams) : Exams[i] = x

\* a student with a sitting that ended later than another of theirs is shown
\* the two, the later first, and not the complete sitting of the other student
C31_Witness ==
    /\ C31_Case
    /\ last.user = "stu"
    /\ Len(Exams) = 2
    /\ Exams[1].end[1] > Exams[2].end[1]
    /\ \E x \in sittings : x.complete /\ x.user = "stu2"

\* list a is list b with some of its first elements taken off
IsSuffix(a, b) ==
    /\ Len(a) <= Len(b)
    /\ a = SubSeq(b, Len(b) - Len(a) + 1, Len(b))

\* the ids of question_order are those of the quiz, each once
OrderOfQuiz(s) ==
    /\ Len(ParseIds(s.question_order)) = Len(quiz.questions)
    /\ Range(ParseIds(s.question_order)) = Range(quiz.questions)

\* every persisted Sitting has the questions of the quiz as its order and
\* a suffix of the order as its remaining questions
C32_Suffix ==
    \A s \in sittings :
        /\ OrderOfQuiz(s)
        /\ IsSuffix(ParseIds(s.question_list), ParseIds(s.question_order))

\* in one step a Sitting keeps its order; its remaining questions stay as
\* they are or lose their head; a Sitting that is new has all its questions
\* remaining, or all but the first when the request that created it answered
\* the first; an answer takes off exactly the head
C32_Step ==
    /\ \A t \in sittings' :
          IF HasRow(sittings, t.id)
          THEN LET s == RowById(sittings, t.id)
               IN  /\ t.question_order = s.question_order
                   /\ \/ t.question_list = s.question_list
                      \/ /\ ParseIds(s.question_list) # <<>>
                         /\ ParseIds(t.question_list) = Tail(ParseIds(s.question_list))
          ELSE \/ t.question_list = t.question_order
               \/ /\ last'.op = "post"
                  /\ ParseIds(t.question_list) = Tail(ParseIds(t.question_order))
    /\ (last'.op = "post" /\ last'.ret = "sitting" /\ last' # last) =>
          /\ ParseIds(last'.after[1].sitting.question_list)
               = Tail(ParseIds(last'.before[1].sitting.question_list))
          /\ last'.after[1].sitting.question_order = last'.before[1].sitting.question_order

\* C32: of every Sitting question_order stays as it was created and
\* question_list is a suffix of it: an answer removes exactly the head of
\* question_list, and no answer, finalize or marking toggle reorders, inserts
\* into or otherwise rewrites either list.
C32_QueueIntact == []C32_Suffix /\ [][C32_Step]_vars

\* a Sitting with its first question answered, the second remaining, after a
\* marking toggle
C32_Witness ==
    /\ last.op = "mark"
    /\ \E s \in sittings :
          /\ Len(ParseIds(s.question_order)) = 2
          /\ ParseIds(s.question_list) = <<ParseIds(s.question_order)[2]>>

\* the last request was an answer to a question of a Sitting
C33_Case == last.op = "post" /\ last.ret = "sitting"

\* an answer leaves one question fewer, and the request finalizes the Sitting
\* exactly when it was the answer to the last of its questions
C33_Answer ==
    C33_Case =>
        LET found == last.before[1].sitting
            left == last.after[1].sitting
        IN  /\ Remaining(left) = Remaining(found) - 1
            /\ last.finalized <=> Answered(left) = Total(left)
            /\ last.finalized <=> Remaining(left) = 0
            /\ Total(left) = Len(quiz.questions)

\* the Sitting with primary key pk is stored and not complete
Active(pk) == \E s \in sittings : s.id = pk /\ ~s.complete

\* the last request finalized the Sitting with primary key pk
Finalized(pk) == last.op = "post" /\ last.finalized /\ last.sid = pk

NoIdTwice(ids) == \A i, j \in 1..Len(ids) : i # j => ids[i] # ids[j]

C35_ScoreBounded ==
    \A s \in sittings : 0 <= s.current_score /\ s.current_score <= Total(s)

\* C36: in every state, under any interleaving of answer, finalize and
\* marking requests, a persisted Sitting has its end set exactly when it is
\* complete: end is empty from creation until the Sitting is finalized, and
\* finalize stores complete and end together.
C36_EndIffComplete ==
    \A s \in sittings : s.complete <=> s.end # <<>>

\* a Sitting is stored complete with its end set after a marking request on
\* it has finished
C36_Witness ==
    /\ toggles > 0
    /\ \A w \in Workers : reqs[w] = NoRequest
    /\ \E s \in sittings : s.complete /\ s.end # <<>>

\* the packed score of a user's Progress row, empty when the user has none
ScoreOf(table, u) == IF table[u] = <<>> THEN <<>> ELSE table[u][1]

\* the sum of 'possible' over the entries of a packed score
RECURSIVE SumPossible(_)
SumPossible(score) ==
    IF score = <<>> THEN 0 ELSE score[1][3] + SumPossible(Tail(score))

\* the request just served recorded an answer of user u
AnsweredBy(u) == last.op = "post" /\ last.ret = "sitting" /\ last.user = u

C37_Start == \A u \in Users : SumPossible(ScoreOf(progress, u)) = 0

C37_Entries ==
    \A u \in Users :
        \A i \in 1..Len(ScoreOf(progress, u)) :
            /\ 0 <= ScoreOf(progress, u)[i][2]
            /\ ScoreOf(progress, u)[i][2] <= ScoreOf(progress, u)[i][3]

C37_Step ==
    \A u \in Users :
        SumPossible(ScoreOf(progress', u)) =
            SumPossible(ScoreOf(progress, u)) + (IF AnsweredBy(u)' THEN 1 ELSE 0)

\* C37: with answers submitted one after another, over any number of
\* Sittings, every entry of a user's ledger has 0 <= correct <= possible, and
\* the sum of possible over the ledger counts the answers the user has
\* submitted: it is 0 before the first request, grows by exactly 1 with every
\* answer of that user and is left alone by every other request.
C37_LedgerCountsAnswers ==
    C37_Start /\ []C37_Entries /\ [][C37_Step]_vars

\* the student has just answered in a second Sitting, the third answer or a
\* later one, with right and wrong answers behind
C37_Witness ==
    /\ AnsweredBy(Student)
    /\ last.sid = 2
    /\ SumPossible(ScoreOf(progress, Student)) >= 3
    /\ \E i \in 1..Len(ScoreOf(progress, Student)) :
          /\ 0 < ScoreOf(progress, Student)[i][2]
          /\ ScoreOf(progress, Student)[i][2] < ScoreOf(progress, Student)[i][3]

====
